---------------------------- MODULE Spec2Model ----------------------------
(***************************************************************************)
(* Kube-OVN-AI-Checker: the round controller (LLMAgentAnalyzer.diagnose),  *)
(* the command-line entry point that drives it, and the K8sCache.          *)
(*                                                                         *)
(* SpecDiag  - one diagnose() call, from the CLI or from a direct caller,  *)
(*             fed by the event stream of the reasoning framework.         *)
(* SpecCache - a K8sCache under get/set/remove/cleanup/clear and a clock.  *)
(***************************************************************************)
EXTENDS Integers, Sequences, FiniteSets, TLC

VARIABLES
    \* ---- caller / CLI (cli/main.py)
    pc,                 \* position of the run
    caller,             \* "none" | "cli" | "api"
    exitCode,           \* process exit code, NoExit until the CLI returns
    \* ---- LLMAgentAnalyzer.diagnose locals
    hasCallback,        \* progress_callback is not None
    max_rounds,         \* self.max_rounds
    rule_name,          \* Unbound until match_rule has returned
    rounds,             \* rounds list
    collected,          \* session_state["collected_data"]["tools"]
    tool_call_count,
    pending_ai_message, \* NoMsg or the id of the pending message
    recursion_limit,
    result,             \* the dict diagnose() returned (status "running" before)
    \* ---- the reasoning framework (agent.astream_events)
    fw,                 \* "idle" | "agent" | "tools" | "end"
    callsLeft,          \* tool calls of the last message not started yet
    running,            \* tools started and not finished
    \* ---- history (not program state)
    msgSeq,             \* number of decoded reasoning messages so far
    startSeq,           \* per round: msgSeq when its tool started
    endEvents,          \* the tool-finished events, in order
    agentInvoked,       \* astream_events was called
    terminalSets,       \* number of times a terminal status was set
    lastFault,          \* "none", or the kind of fault astream_events raised
    finalMsg,           \* NoMsg, or the first decoded message without tool calls
    \* ---- K8sCache
    cache,              \* OrderedDict as a sequence of [key, data, ts], LRU first
    now,                \* clock
    hits, misses, evictions,
    lastOp,             \* the last cache operation and what it returned
    opCount,            \* number of cache operations so far
    recency,            \* history: stored keys, least recently accessed first
    \* ---- collect_t0 (collectors/t0_collector.py)
    t0pc,               \* position of collect_t0
    t0pending,          \* probes of the current gather() not finished yet
    t0status,           \* per component: the ComponentStatus its probe returned
    t0input,            \* history: per component, what the cluster answered
    t0data,             \* the dict collect_t0 returned
    \* ---- one probe on its own (_check_deployment / _check_daemonset)
    probeIn,            \* the kind of workload and what the cluster answers
    probeOut,           \* the status the probe returned, NoStatus before
    probeMsg,           \* the error_message the probe returned, if any
    \* ---- MetadataRetriever (knowledge/retriever.py)
    documents,          \* self._documents, in discovery order
    scanCache,          \* self._cache: category -> list, NotScanned before
    retrieved,          \* the last retrieve() call: its arguments and result
    \* ---- KnowledgeInjector (knowledge/injector.py) as diagnose() uses it
    archDoc,            \* what architecture.md holds, NoArch when it is missing
    briefing,           \* the last injection: arguments, text, success flag
    \* ---- K8sResourceCollector._parse_ovn_trace_output
    traceIn,            \* trace_output.split('\n'): the lines of the trace
    traceOut,           \* the dict the parser returned, NoParse before
    \* ---- KubectlWrapper (collectors/k8s_client.py) over the cache above
    enable_cache,       \* self.enable_cache
    runOut,             \* the last run() call: its arguments and result
    \* ---- _execute_with_limit (collectors/t0_collector.py)
    tasks,              \* where each coroutine handed to gather stands
    semaphore,          \* the value of asyncio.Semaphore(max_concurrent)
    \* ---- K8sCache under concurrent callers (collectors/cache.py)
    lkStore,            \* self._cache: the keys in their order
    lkOwner,            \* the thread that holds self._lock, NoThread if free
    lkPc,               \* where each thread stands in its call
    lkKey,              \* the key of the set() each thread is in
    lkSeen,             \* the last entry count a caller was given
    \* ---- match_rule (knowledge/rules.py, classifier.py)
    environ,            \* os.environ: the three variables the classifier reads
    classifier,         \* the module's _classifier
    user_query,         \* the query of the last match_rule call
    matchOut            \* what the last match_rule call gave its caller

diagVars == <<pc, caller, exitCode, hasCallback, max_rounds, rule_name,
              rounds, collected, tool_call_count,
              pending_ai_message, recursion_limit, result, fw, callsLeft,
              running, msgSeq, startSeq, endEvents, agentInvoked, terminalSets,
              lastFault, finalMsg>>
cacheVars == <<cache, now, hits, misses, evictions, lastOp, opCount, recency>>
t0Vars == <<t0pc, t0pending, t0status, t0input, t0data>>
probeVars == <<probeIn, probeOut, probeMsg>>
selVars == <<documents, scanCache, retrieved>>
injVars == <<archDoc, briefing>>
traceVars == <<traceIn, traceOut>>
runVars == <<enable_cache, runOut>>
limVars == <<tasks, semaphore>>
lockVars == <<lkStore, lkOwner, lkPc, lkKey, lkSeen>>
matchVars == <<environ, classifier, user_query, matchOut>>
vars == <<diagVars, cacheVars, t0Vars, probeVars, selVars, injVars, traceVars,
          runVars, limVars, lockVars, matchVars>>
otherThanRun ==
    <<diagVars, t0Vars, probeVars, selVars, injVars, traceVars, limVars,
      lockVars, matchVars>>
otherThanLim ==
    <<diagVars, cacheVars, t0Vars, probeVars, selVars, injVars, traceVars,
      runVars, lockVars, matchVars>>
otherThanLock ==
    <<diagVars, cacheVars, t0Vars, probeVars, selVars, injVars, traceVars,
      runVars, limVars, matchVars>>
otherThanMatch ==
    <<diagVars, cacheVars, t0Vars, probeVars, selVars, injVars, traceVars,
      runVars, limVars, lockVars>>
otherThanDiag ==
    <<cacheVars, t0Vars, probeVars, selVars, injVars, traceVars, runVars,
      limVars, lockVars, matchVars>>
otherThanCache ==
    <<diagVars, t0Vars, probeVars, selVars, injVars, traceVars, runVars,
      limVars, lockVars, matchVars>>
otherThanT0 ==
    <<diagVars, cacheVars, probeVars, selVars, injVars, traceVars, runVars,
      limVars, lockVars, matchVars>>
otherThanProbe ==
    <<diagVars, cacheVars, t0Vars, selVars, injVars, traceVars, runVars,
      limVars, lockVars, matchVars>>
otherThanSel ==
    <<diagVars, cacheVars, t0Vars, probeVars, injVars, traceVars, runVars,
      limVars, lockVars, matchVars>>
otherThanInj ==
    <<diagVars, cacheVars, t0Vars, probeVars, traceVars, runVars,
      limVars, lockVars, matchVars>>
otherThanTrace ==
    <<diagVars, cacheVars, t0Vars, probeVars, selVars, injVars, runVars,
      limVars, lockVars, matchVars>>

-----------------------------------------------------------------------------
(* Bounds of the model *)

MaxRecorded == 2
MaxMsgs == 2
MaxCalls == 2

\* the cache of the model is K8sCache(ttl_seconds=TtlSeconds, max_size=MaxSize)
TtlSeconds == 2
MaxSize == 2
MaxTime == 4
MaxOps == 4

\* replica counts a workload status reports
MaxReplicas == 2

\* documents in the knowledge directory
MaxDocs == 4

\* lines of a trace
MaxLines == 3

\* cache operations of a wrapper run: run() calls and foreign set() calls
MaxRuns == 3

\* coroutines handed to one _execute_with_limit call
MaxTasks == 5

-----------------------------------------------------------------------------
(* Values *)

NoExit == -1
NoMsg == 0
Unbound == "UNBOUND"

Max(a, b) == IF a >= b THEN a ELSE b

\* IntelligentClassifier.CATEGORIES
CATEGORIES == {"general", "pod_to_pod", "pod_to_pod_cross_node",
               "pod_to_service", "pod_to_external"}

\* what the classifier answers for the queries of the model
QueryAnswers == {"general", "pod_to_service"}

ToolNames == {"collect_pod_logs"}
NoName == "NONE"
OutputKinds == {"err", "long"}
ContentKinds == {"json", "text_fields", "text_free"}

\* shapes of an on_chat_model_end event: where (if anywhere) the message is
EventShapes == {"message_field", "ai_output", "dict_messages", "dict_generations",
                "chat_result", "dict_empty", "none"}


NoMsgRec == [id |-> NoMsg, calls |-> 0, kwCalls |-> 0, content |-> "none"]

\* an AIMessage: tool_calls (parsed), additional_kwargs["tool_calls"] (raw, absent
\* or holding at least the parsed calls), content (free text when it is the
\* thought that goes with tool calls, a diagnosis in some format otherwise)
Messages(id) == { m \in [id : {id}, calls : 0..MaxCalls, kwCalls : 0..MaxCalls,
                         content : ContentKinds] :
                    /\ m.kwCalls \in {0, Max(m.calls, 1)}
                    /\ (m.calls > 0 \/ m.kwCalls > 0) => m.content = "text_free" }

\* an element of data.input["messages"]: astream_events(version="v1") hands the
\* prompts over as batches (a list of message lists), so no element is an AIMessage
InputElems == { [isAI |-> FALSE, msg |-> NoMsgRec] }
InputLists == { <<>> } \cup { <<e>> : e \in InputElems }

-----------------------------------------------------------------------------
(* utils/parsers.py *)

\* extract_ai_message(output)
extract_ai_message(shape, m) ==
    CASE shape = "none"             -> NoMsgRec
      [] shape = "ai_output"        -> m
      [] shape = "dict_messages"    -> m
      [] shape = "dict_generations" -> m
      [] shape = "chat_result"      -> m
      [] OTHER                      -> NoMsgRec

OutputIsDict(shape) == shape \in {"dict_messages", "dict_generations", "dict_empty"}

RECURSIVE LastAIMessage(_)
\* for msg in reversed(messages): if isinstance(msg, AIMessage): ...; break
LastAIMessage(msgs) ==
    IF msgs = <<>> THEN NoMsgRec
    ELSE IF msgs[Len(msgs)].isAI THEN msgs[Len(msgs)].msg
    ELSE LastAIMessage(SubSeq(msgs, 1, Len(msgs) - 1))

\* the three-step extraction of the on_chat_model_end handler
DecodeAiMessage(ev) ==
    LET m1 == IF ev.shape = "message_field" THEN ev.msg ELSE NoMsgRec
        m2 == IF m1 = NoMsgRec THEN extract_ai_message(ev.shape, ev.msg) ELSE m1
        m3 == IF m2 = NoMsgRec /\ OutputIsDict(ev.shape)
              THEN LastAIMessage(ev.inputMsgs) ELSE m2
    IN  m3

\* tool_calls = getattr(ai_msg, "tool_calls") or additional_kwargs.get("tool_calls")
HasToolCalls(m) == m.calls > 0 \/ m.kwCalls > 0

NoDiagnosis == [kind |-> "none", format |-> "none", msg |-> NoMsg,
                evidence |-> <<>>, severity |-> "none", root_cause |-> "none"]

\* parse_diagnosis_from_message: JSON first, the text format otherwise
parse_diagnosis_from_message(m) ==
    [kind |-> "parsed",
     format |-> CASE m.content = "json" -> "json"
                  [] m.content = "text_fields" -> "fields"
                  [] OTHER -> "analysis",
     msg |-> m.id,
     evidence |-> <<>>, severity |-> "medium", root_cause |-> "from_message"]

\* make_json_safe: a string longer than max_len is cut and "..." appended
make_json_safe(out) == IF out = "long" THEN "long_cut" ELSE out

\* "error" in out.lower()
MentionsError(out) == out = "err"

ErrEntries(tools) == SelectSeq(tools, LAMBDA e : MentionsError(e.output))

\* create_fallback_diagnosis(collected)
create_fallback_diagnosis(tools) ==
    [kind |-> "fallback", format |-> "none", msg |-> NoMsg,
     evidence |-> ErrEntries(tools),
     severity |-> IF tools = <<>> THEN "low" ELSE "medium",
     root_cause |-> IF tools = <<>> THEN "no_tool_output"
                    ELSE IF ErrEntries(tools) # <<>> THEN "evidence_without_conclusion"
                    ELSE ""]

-----------------------------------------------------------------------------
(* analyzers/llm_agent_analyzer.py *)

RecursionFloor == 40

\* recursion_limit = max(40, self.max_rounds * 4 + 5)
RecursionLimit(mr) == Max(RecursionFloor, mr * 4 + 5)

CannedGuidance == [kind |-> "canned", format |-> "none", msg |-> NoMsg,
                   evidence |-> <<>>, severity |-> "none", root_cause |-> "none"]

Running == [status |-> "running", rounds |-> <<>>, roundsIsInt |-> FALSE,
            diagnosis |-> NoDiagnosis, collected |-> <<>>,
            matched_rule |-> "", fallback |-> FALSE, error |-> FALSE]


\* what match_rule(user_query) does: it raises when the classifier cannot be
\* constructed (that call is outside its try), returns ("general", 0.0) when
\* classify() raises, and (text, 0.8) when classify() answers
MatchRuleOutcomes ==
    { [raises |-> TRUE, category |-> Unbound, conf |-> 0],
      [raises |-> FALSE, category |-> "general", conf |-> 0] }
    \cup { [raises |-> FALSE, category |-> c, conf |-> 8] : c \in QueryAnswers }

MaxRoundsChoices == {1, 10}
CliMaxRounds == 10

NoOp == [op |-> "none", key |-> 0, data |-> "none", ret |-> "none", at |-> 0,
         afterSet |-> FALSE]

InitDiag ==
    /\ pc = "start" /\ caller = "none" /\ exitCode = NoExit
    /\ hasCallback = FALSE /\ max_rounds = CliMaxRounds
    /\ rule_name = Unbound
    /\ rounds = <<>> /\ collected = <<>> /\ tool_call_count = 0
    /\ pending_ai_message = NoMsg /\ recursion_limit = 0
    /\ result = Running
    /\ fw = "idle" /\ callsLeft = 0 /\ running = 0
    /\ msgSeq = 0 /\ startSeq = <<>> /\ endEvents = <<>>
    /\ agentInvoked = FALSE /\ terminalSets = 0
    /\ lastFault = "none" /\ finalMsg = NoMsg

InitCache ==
    /\ cache = <<>> /\ now = 0 /\ hits = 0 /\ misses = 0 /\ evictions = 0
    /\ lastOp = NoOp /\ opCount = 0 /\ recency = <<>>

loopVars == <<rounds, collected, tool_call_count, pending_ai_message,
              recursion_limit, fw, callsLeft, running, msgSeq, startSeq,
              endEvents, agentInvoked, lastFault, finalMsg>>
callVars == <<hasCallback, max_rounds, rule_name>>

\* return <dict>: the terminal status is set
Return(r) ==
    /\ result' = r
    /\ terminalSets' = terminalSets + 1
    /\ pc' = "returned"

\* the frame of diagnose() is gone: its loop locals, and the event stream
LeaveLoop ==
    /\ rounds' = <<>> /\ collected' = <<>> /\ tool_call_count' = 0
    /\ pending_ai_message' = NoMsg
    /\ fw' = "idle" /\ callsLeft' = 0 /\ running' = 0
    /\ msgSeq' = 0 /\ startSeq' = <<>>
    /\ UNCHANGED <<recursion_limit, agentInvoked, endEvents>>

-----------------------------------------------------------------------------
(* cli/main.py: main_async and diagnose up to the analyzer.diagnose call *)

CliMain(query, apiKey, initOk) ==
    /\ pc = "start"
    /\ caller' = "cli"
    /\ IF query = "" \/ ~apiKey \/ ~initOk
       THEN /\ exitCode' = 1
            /\ pc' = "exited"
            /\ UNCHANGED <<hasCallback, max_rounds>>
       ELSE /\ pc' = "phase1"
            /\ hasCallback' = TRUE
            /\ max_rounds' = CliMaxRounds
            /\ UNCHANGED exitCode
    /\ UNCHANGED <<rule_name, loopVars, result, terminalSets, otherThanDiag>>

\* a direct call of LLMAgentAnalyzer(max_rounds=mr).diagnose(query, cb)
ApiCall(cb, mr) ==
    /\ pc = "start"
    /\ caller' = "api"
    /\ pc' = "phase1"
    /\ hasCallback' = cb
    /\ max_rounds' = mr
    /\ UNCHANGED <<exitCode, rule_name, loopVars, result, terminalSets,
                   otherThanDiag>>

-----------------------------------------------------------------------------
(* LLMAgentAnalyzer.diagnose *)

GeneralResult == [status |-> "general", rounds |-> <<>>, roundsIsInt |-> TRUE,
                  diagnosis |-> CannedGuidance, collected |-> <<>>,
                  matched_rule |-> "general", fallback |-> FALSE, error |-> FALSE]

\* Phase 1: match the rule. The progress calls that report the classification
\* are not guarded by "if progress_callback", so without a callback they raise
\* TypeError into the except branch, after rule_name was bound.
Phase1(o) ==
    /\ pc = "phase1"
    /\ rule_name' = o.category
    /\ IF ~o.raises /\ hasCallback /\ o.category = "general"
       THEN Return(GeneralResult)
       ELSE /\ pc' = "phase2"
            /\ UNCHANGED <<result, terminalSets>>
    /\ UNCHANGED <<caller, exitCode, hasCallback, max_rounds, loopVars, otherThanDiag>>

\* Phase 2: knowledge injection, then the agent is started. Whether inject_t0
\* succeeds, falls back or raises, a system message is built and the loop is
\* entered; but with rule_name unbound the try block raises NameError at
\* rules.get(rule_name, "") and so does the same call in its except branch.
Phase2 ==
    /\ pc = "phase2"
    /\ IF rule_name = Unbound
       THEN /\ pc' = "raised"
            /\ UNCHANGED loopVars
       ELSE /\ pc' = "loop"
            /\ rounds' = <<>>
            /\ collected' = <<>>
            /\ tool_call_count' = 0
            /\ recursion_limit' = RecursionLimit(max_rounds)
            /\ pending_ai_message' = NoMsg
            /\ agentInvoked' = TRUE
            /\ fw' = "agent"
            /\ UNCHANGED <<callsLeft, running, msgSeq, startSeq, endEvents,
                           lastFault, finalMsg>>
    /\ UNCHANGED <<caller, exitCode, callVars, result, terminalSets, otherThanDiag>>

ToolNameOf(n) == IF n = NoName THEN "unknown" ELSE n

CompletedResult(m) ==
    [status |-> "completed", rounds |-> rounds, roundsIsInt |-> FALSE,
     diagnosis |-> parse_diagnosis_from_message(m), collected |-> collected,
     matched_rule |-> rule_name, fallback |-> FALSE, error |-> FALSE]

\* the stream end taken for the framework's step limit
FallbackResultAsMaxRounds ==
    [status |-> "max_rounds_reached", rounds |-> rounds, roundsIsInt |-> FALSE,
     diagnosis |-> create_fallback_diagnosis(collected), collected |-> collected,
     matched_rule |-> rule_name, fallback |-> TRUE, error |-> FALSE]

FallbackResult ==
    [status |-> "completed", rounds |-> rounds, roundsIsInt |-> FALSE,
     diagnosis |-> create_fallback_diagnosis(collected), collected |-> collected,
     matched_rule |-> rule_name, fallback |-> TRUE, error |-> FALSE]

\* one except branch for every fault
FaultStatusOneBranch(kind) == "failed"

\* the status of the two except branches around the event loop
FaultStatus(kind) == IF kind = "step_limit" THEN "max_rounds_reached" ELSE "failed"

FaultResult(kind) ==
    [status |-> FaultStatus(kind), rounds |-> rounds, roundsIsInt |-> FALSE,
     diagnosis |-> NoDiagnosis, collected |-> collected,
     matched_rule |-> "", fallback |-> FALSE, error |-> TRUE]

\* a message without tool calls that does not end the loop
OnChatModelEndNoReturn(ai, pending) ==
    IF ai = NoMsgRec THEN <<pending, FALSE>>
    ELSE IF HasToolCalls(ai) THEN <<ai.id, FALSE>>
    ELSE <<pending, FALSE>>

\* the on_chat_model_end branch, for the message `ai` the event decoded to:
\* <<pending', returns>>
OnChatModelEnd(ai, pending) ==
    IF ai = NoMsgRec THEN <<pending, FALSE>>
    ELSE IF HasToolCalls(ai) THEN <<ai.id, FALSE>>
    ELSE <<pending, TRUE>>

\* event on_chat_model_end: the agent node has produced message ev.msg, of which
\* the framework will run nValid tool calls (those that name a known tool)
ChatModelEnd(ev, nValid) ==
    /\ pc = "loop" /\ fw = "agent"
    /\ nValid <= ev.msg.calls
    /\ nValid <= MaxRecorded - Len(rounds)
    /\ LET ai == DecodeAiMessage(ev)
           on == OnChatModelEnd(ai, pending_ai_message) IN
         /\ (ai # NoMsgRec /\ HasToolCalls(ai)) => msgSeq < MaxMsgs
         /\ IF on[2]
            THEN /\ Return(CompletedResult(ai))
                 /\ LeaveLoop
                 /\ UNCHANGED lastFault
            ELSE /\ msgSeq' = IF ai # NoMsgRec THEN msgSeq + 1 ELSE msgSeq
                 /\ pending_ai_message' = on[1]
                 /\ fw' = IF ev.msg.calls = 0 THEN "end" ELSE "tools"
                 /\ callsLeft' = nValid
                 /\ UNCHANGED <<pc, result, terminalSets, rounds, collected,
                                tool_call_count, recursion_limit, running,
                                startSeq, endEvents, agentInvoked, lastFault>>
         /\ finalMsg' = IF ai # NoMsgRec /\ ai.calls = 0 /\ ai.kwCalls = 0
                        THEN ai.id ELSE finalMsg
    /\ UNCHANGED <<caller, exitCode, callVars, otherThanDiag>>

\* the round the on_tool_start branch records
NewRound(name, pending) == [tool_name |-> ToolNameOf(name), thought |-> pending]

\* the slot is not cleared
PendingKept(pending) == pending

\* the pending slot after the on_tool_start branch
PendingAfterStart(pending) == NoMsg

\* event on_tool_start
ToolStart(name) ==
    /\ pc = "loop" /\ fw = "tools"
    /\ callsLeft > 0
    /\ Len(rounds) < MaxRecorded
    /\ rounds' = Append(rounds, NewRound(name, pending_ai_message))
    /\ pending_ai_message' = PendingAfterStart(pending_ai_message)
    /\ tool_call_count' = tool_call_count + 1
    /\ callsLeft' = callsLeft - 1
    /\ running' = running + 1
    /\ startSeq' = Append(startSeq, msgSeq)
    /\ UNCHANGED <<pc, caller, exitCode, callVars, collected, recursion_limit,
                   result, fw, msgSeq, endEvents, agentInvoked, terminalSets,
                   lastFault, finalMsg, otherThanDiag>>

\* an erroring output is not recorded
RecordOutputSkippingErrors(tools, name, out) ==
    IF out = "err" THEN tools
    ELSE Append(tools, [name |-> ToolNameOf(name), output |-> make_json_safe(out)])

\* session_state["collected_data"]["tools"].append({"name": .., "output": ..})
RecordOutput(tools, name, out) ==
    Append(tools, [name |-> ToolNameOf(name), output |-> make_json_safe(out)])

\* event on_tool_end
ToolEnd(name, out) ==
    /\ pc = "loop" /\ fw = "tools"
    /\ running > 0
    /\ collected' = RecordOutput(collected, name, out)
    /\ endEvents' = Append(endEvents, [name |-> name, output |-> out])
    /\ running' = running - 1
    /\ UNCHANGED <<pc, caller, exitCode, callVars, rounds, tool_call_count,
                   pending_ai_message, recursion_limit, result, fw, callsLeft,
                   msgSeq, startSeq, agentInvoked, terminalSets, lastFault,
                   finalMsg, otherThanDiag>>

\* the tool node is done (its on_chain_end is an event the loop has no branch
\* for) and the agent node is next
ToolsLeave ==
    /\ pc = "loop" /\ fw = "tools"
    /\ callsLeft = 0 /\ running = 0
    /\ fw' = "agent"
    /\ UNCHANGED <<pc, caller, exitCode, callVars, rounds, collected,
                   tool_call_count, pending_ai_message, recursion_limit, result,
                   callsLeft, running, msgSeq, startSeq, endEvents, agentInvoked,
                   terminalSets, lastFault, finalMsg, otherThanDiag>>

\* the event stream ends and no final message has been returned
StreamEnd ==
    /\ pc = "loop" /\ fw = "end"
    /\ Return(FallbackResult)
    /\ LeaveLoop
    /\ UNCHANGED <<caller, exitCode, callVars, lastFault, finalMsg, otherThanDiag>>

\* astream_events raises: GraphRecursionError when the framework, which counts
\* its graph steps itself, finds the recursion_limit used up before a node; any
\* other exception (the model's API, a tool) at any point
Fault(kind) ==
    /\ pc = "loop"
    /\ fw \in {"agent", "tools"}
    /\ kind = "step_limit" => (fw = "agent" \/ running = 0)
    /\ Return(FaultResult(kind))
    /\ LeaveLoop
    /\ lastFault' = kind
    /\ UNCHANGED <<caller, exitCode, callVars, finalMsg, otherThanDiag>>

-----------------------------------------------------------------------------
(* cli/main.py: diagnose after analyzer.diagnose has returned or raised *)

\* the value the CLI's diagnose() returns, which main() passes to sys.exit
CliExitCode(raised, status) ==
    IF raised THEN 1
    ELSE IF status = "general" THEN 0
    ELSE 0

CliFinish ==
    /\ caller = "cli"
    /\ pc \in {"returned", "raised"}
    /\ exitCode' = CliExitCode(pc = "raised", result.status)
    /\ pc' = "exited"
    /\ UNCHANGED <<caller, callVars, loopVars, result, terminalSets, otherThanDiag>>

ChatEvents == [shape : EventShapes, msg : Messages(msgSeq + 1),
               inputMsgs : InputLists]

NextDiag ==
    \/ \E q \in {"", "q"}, k \in BOOLEAN, i \in BOOLEAN : CliMain(q, k, i)
    \/ \E cb \in BOOLEAN, mr \in MaxRoundsChoices : ApiCall(cb, mr)
    \/ \E o \in MatchRuleOutcomes : Phase1(o)
    \/ Phase2
    \/ \E ev \in ChatEvents, n \in 0..MaxCalls : ChatModelEnd(ev, n)
    \/ \E n \in ToolNames : ToolStart(n)
    \/ \E n \in ToolNames \cup {NoName}, o \in OutputKinds : ToolEnd(n, o)
    \/ ToolsLeave
    \/ StreamEnd
    \/ \E k \in {"step_limit", "other"} : Fault(k)
    \/ CliFinish


-----------------------------------------------------------------------------
(* collectors/cache.py: K8sCache *)

Keys == 1..(MaxSize + 1)
Data == {"d1", "d2"}
Miss == "miss"

HasKey(c, k) == \E i \in 1..Len(c) : c[i].key = k
Entry(c, k) == c[CHOOSE i \in 1..Len(c) : c[i].key = k]
Range(q) == {q[i] : i \in 1..Len(q)}
\* the access history without the keys in ks
Dropped(r, ks) == SelectSeq(r, LAMBDA x : x \notin ks)

\* del self._cache[key]
Without(c, k) == SelectSeq(c, LAMBDA e : e.key # k)

\* an entry expires when its age reaches the TTL
IsExpiredAtTtl(ts, t) == t - ts >= TtlSeconds

\* datetime.now() - timestamp > self.ttl
IsExpired(ts, t) == t - ts > TtlSeconds

\* a hit that leaves the entry where it is
CacheGetNoTouch(c, k, t) ==
    IF ~HasKey(c, k) THEN [cache |-> c, ret |-> Miss, hit |-> FALSE]
    ELSE IF IsExpired(Entry(c, k).ts, t)
         THEN [cache |-> Without(c, k), ret |-> Miss, hit |-> FALSE]
         ELSE [cache |-> c, ret |-> Entry(c, k).data, hit |-> TRUE]

\* get(key) at time t: the cache afterwards, the value returned, hit or miss
CacheGet(c, k, t) ==
    IF ~HasKey(c, k) THEN [cache |-> c, ret |-> Miss, hit |-> FALSE]
    ELSE IF IsExpired(Entry(c, k).ts, t)
         THEN [cache |-> Without(c, k), ret |-> Miss, hit |-> FALSE]
         ELSE [cache |-> Append(Without(c, k), Entry(c, k)),
               ret |-> Entry(c, k).data, hit |-> TRUE]

\* a set that never evicts
CacheSetNoEvict(c, k, d, t) ==
    [cache |-> Append(Without(c, k), [key |-> k, data |-> d, ts |-> t]),
     evicted |-> FALSE]

\* set(key, data) at time t: the cache afterwards, and whether an entry was evicted
CacheSet(c, k, d, t) ==
    LET ins == Append(Without(c, k), [key |-> k, data |-> d, ts |-> t])
    IN  IF Len(ins) > MaxSize
        THEN [cache |-> Tail(ins), evicted |-> TRUE]
        ELSE [cache |-> ins, evicted |-> FALSE]

Get(k) ==
    /\ opCount < MaxOps
    /\ LET g == CacheGet(cache, k, now) IN
         /\ cache' = g.cache
         /\ hits' = IF g.hit THEN hits + 1 ELSE hits
         /\ misses' = IF g.hit THEN misses ELSE misses + 1
         /\ lastOp' = [op |-> "get", key |-> k, data |-> "none", ret |-> g.ret,
                       at |-> now,
                       afterSet |-> lastOp.op = "set" /\ lastOp.key = k]
         /\ recency' = IF g.hit THEN Append(Dropped(recency, {k}), k)
                        ELSE Dropped(recency, {k})
    /\ opCount' = opCount + 1
    /\ UNCHANGED <<now, evictions, otherThanCache>>

Set(k, d) ==
    /\ opCount < MaxOps
    /\ LET st == CacheSet(cache, k, d, now) IN
         /\ cache' = st.cache
         /\ evictions' = IF st.evicted THEN evictions + 1 ELSE evictions
    /\ lastOp' = [op |-> "set", key |-> k, data |-> d, ret |-> "none", at |-> now,
                  afterSet |-> FALSE]
    /\ recency' = LET r == Append(Dropped(recency, {k}), k)
                  IN  IF evictions' # evictions
                      THEN Dropped(r, {e.key : e \in Range(cache)} \ {e.key : e \in Range(cache')})
                      ELSE r
    /\ opCount' = opCount + 1
    /\ UNCHANGED <<now, hits, misses, otherThanCache>>

Remove(k) ==
    /\ opCount < MaxOps
    /\ cache' = Without(cache, k)
    /\ lastOp' = [op |-> "remove", key |-> k, data |-> "none",
                  ret |-> IF HasKey(cache, k) THEN "true" ELSE "false", at |-> now,
                  afterSet |-> FALSE]
    /\ recency' = Dropped(recency, {k})
    /\ opCount' = opCount + 1
    /\ UNCHANGED <<now, hits, misses, evictions, otherThanCache>>

CleanupExpired ==
    /\ opCount < MaxOps
    /\ cache' = SelectSeq(cache, LAMBDA e : ~IsExpired(e.ts, now))
    /\ lastOp' = [op |-> "cleanup", key |-> 0, data |-> "none", ret |-> "none",
                  at |-> now, afterSet |-> FALSE]
    /\ recency' = Dropped(recency, {e.key : e \in Range(cache)} \ {e.key : e \in Range(cache')})
    /\ opCount' = opCount + 1
    /\ UNCHANGED <<now, hits, misses, evictions, otherThanCache>>

\* a clear that empties the cache and keeps the statistics
ClearKeepingCounters ==
    /\ opCount < MaxOps
    /\ cache' = <<>>
    /\ lastOp' = [op |-> "clear", key |-> 0, data |-> "none", ret |-> "none",
                  at |-> now, afterSet |-> FALSE]
    /\ recency' = <<>>
    /\ opCount' = opCount + 1
    /\ UNCHANGED <<now, hits, misses, evictions, otherThanCache>>

Clear ==
    /\ opCount < MaxOps
    /\ cache' = <<>>
    /\ hits' = 0 /\ misses' = 0 /\ evictions' = 0
    /\ lastOp' = [op |-> "clear", key |-> 0, data |-> "none", ret |-> "none",
                  at |-> now, afterSet |-> FALSE]
    /\ recency' = <<>>
    /\ opCount' = opCount + 1
    /\ UNCHANGED <<now, otherThanCache>>

\* the clock datetime.now() reads
Tick ==
    /\ now < MaxTime
    /\ now' = now + 1
    /\ UNCHANGED <<cache, hits, misses, evictions, lastOp, opCount, recency, otherThanCache>>

NextCache ==
    \/ \E k \in Keys : Get(k)
    \/ \E k \in Keys, d \in Data : Set(k, d)
    \/ \E k \in Keys : Remove(k)
    \/ CleanupExpired
    \/ Clear
    \/ Tick



-----------------------------------------------------------------------------
(* collectors/models.py, collectors/t0_collector.py: the component probes *)

DEPLOYMENTS_TO_CHECK == {"kube-ovn-controller", "kube-ovn-monitor", "ovn-central"}
DAEMONSETS_TO_CHECK == {"kube-ovn-cni", "kube-ovn-pinger", "ovs-ovn"}
ENDPOINTS_TO_CHECK == {"ovn-nb", "ovn-northd", "ovn-sb"}
ALL_COMPONENTS == DEPLOYMENTS_TO_CHECK \cup DAEMONSETS_TO_CHECK \cup ENDPOINTS_TO_CHECK

TypeOf(name) == IF name \in DEPLOYMENTS_TO_CHECK THEN "deployment"
                ELSE IF name \in DAEMONSETS_TO_CHECK THEN "daemonset"
                ELSE "endpoint"

\* HealthStatus
HealthStatus == {"healthy", "unhealthy", "missing", "permission_denied",
                 "timeout", "unknown"}
NoStatus == "none"

\* what result["error"] says
ErrorTexts == {"not_found", "forbidden", "not_found_forbidden", "timed_out", "other"}
NoError == "none"

\* What the cluster answers to one probe.
\*   outcome      "ok": the get call returned success with the object;
\*                "error": it returned success False with the text `error`;
\*                "raises": the call raised an exception
\*   ready        readyReplicas / numberReady / len(addresses)
\*   desired      spec.replicas / desiredNumberScheduled
\*   second       availableReplicas / currentNumberScheduled
\*   unavailable  unavailableReplicas / numberUnavailable / len(not_ready_addresses)
\*   detailRaises a call of the branch that fetches describe output and logs raises
Answer(o, e, r, d, s2, u, dr) ==
    [outcome |-> o, error |-> e, ready |-> r, desired |-> d, second |-> s2,
     unavailable |-> u, detailRaises |-> dr]

OkAnswers == { Answer("ok", NoError, r, d, s2, u, dr) :
                 r \in 0..MaxReplicas, d \in 0..MaxReplicas, s2 \in 0..MaxReplicas,
                 u \in 0..MaxReplicas, dr \in BOOLEAN }
ErrorAnswers == { Answer("error", e, 0, 0, 0, 0, FALSE) : e \in ErrorTexts }
RaisingAnswer == Answer("raises", NoError, 0, 0, 0, 0, FALSE)
Answers == OkAnswers \cup ErrorAnswers \cup {RaisingAnswer}

\* a classification that knows no error text
ClassifyErrorAllUnknown(e) == "unknown"

\* if "not found" in error.lower() .. elif "forbidden" in error.lower() .. else
ClassifyError(e) ==
    IF e \in {"not_found", "not_found_forbidden"} THEN "missing"
    ELSE IF e = "forbidden" THEN "permission_denied"
    ELSE "unknown"

\* a probe that raised is taken for a component that is not there
ProbeCaughtAsMissing == "missing"

\* the except branch of a probe
ProbeCaught == "unknown"

\* the not-healthy branch: describe output and pod logs are fetched inside the
\* probe's try, so an exception there ends in the except branch
DetailStatus(a) == IF a.detailRaises THEN ProbeCaught ELSE "unhealthy"

\* a deployment is healthy only with at least one ready replica
check_deployment_nonzero(a) ==
    IF a.outcome = "raises" THEN ProbeCaught
    ELSE IF a.outcome = "error" THEN ClassifyError(a.error)
    ELSE IF a.ready = a.desired /\ a.second = a.desired /\ a.unavailable = 0
            /\ a.ready >= 1
         THEN "healthy"
         ELSE DetailStatus(a)

\* _check_deployment: the status of the ComponentStatus it returns
check_deployment(a) ==
    IF a.outcome = "raises" THEN ProbeCaught
    ELSE IF a.outcome = "error" THEN ClassifyError(a.error)
    ELSE IF a.ready = a.desired /\ a.second = a.desired /\ a.unavailable = 0
         THEN "healthy"
         ELSE DetailStatus(a)

\* _check_daemonset
check_daemonset(a) ==
    IF a.outcome = "raises" THEN ProbeCaught
    ELSE IF a.outcome = "error" THEN ClassifyError(a.error)
    ELSE IF a.ready = a.desired /\ a.second = a.desired /\ a.unavailable = 0
         THEN "healthy"
         ELSE DetailStatus(a)

\* _check_endpoint: at least one address and none not ready
check_endpoint(a) ==
    IF a.outcome = "raises" THEN ProbeCaught
    ELSE IF a.outcome = "error" THEN ClassifyError(a.error)
    ELSE IF a.ready >= 1 /\ a.unavailable = 0
         THEN "healthy"
         ELSE DetailStatus(a)

CheckOf(type, a) ==
    CASE type = "deployment" -> check_deployment(a)
      [] type = "daemonset"  -> check_daemonset(a)
      [] OTHER               -> check_endpoint(a)

\* the ComponentStatus dict a probe returns
ComponentStatus(name, a) ==
    [name |-> name, type |-> TypeOf(name), status |-> CheckOf(TypeOf(name), a)]

\* the dict of a probe has no error_message key
NoMessage == "<no error_message>"

\* the error_message of the dict a probe returns: the raw error text of a
\* failed get unless the component is missing, the counts of a component
\* that is not healthy, str(e) from the except branch
ErrorMessage(type, a) ==
    LET status == CheckOf(type, a)
    IN  IF a.outcome = "raises" THEN "str(e)"
        ELSE IF a.outcome = "error"
        THEN IF status = "missing" THEN NoMessage ELSE a.error
        ELSE IF status = "healthy" THEN NoMessage
        ELSE IF a.detailRaises THEN "str(e)"
        ELSE "counts"

NoProbe == [type |-> "none", answer |-> RaisingAnswer]
ProbeInputs == [type : {"deployment", "daemonset", "endpoint"}, answer : Answers]

InitProbe == probeIn = NoProbe /\ probeOut = NoStatus /\ probeMsg = NoMessage

\* one call of _check_deployment / _check_daemonset / _check_endpoint
Probe ==
    /\ probeIn # NoProbe
    /\ probeOut = NoStatus
    /\ probeOut' = CheckOf(probeIn.type, probeIn.answer)
    /\ probeMsg' = ErrorMessage(probeIn.type, probeIn.answer)
    /\ UNCHANGED <<probeIn, otherThanProbe>>

NextProbe == Probe

-----------------------------------------------------------------------------
(* collectors/t0_collector.py: collect_t0 *)

\* the answers the cluster gives in the collect_t0 runs of the model
T0Answers == { Answer("ok", NoError, 1, 1, 1, 0, FALSE),
               Answer("error", "not_found", 0, 0, 0, 0, FALSE),
               RaisingAnswer }

NoComponent == [name |-> "none", type |-> "none", status |-> NoStatus]
NoData == [returned |-> FALSE]

GroupOf(p) == CASE p = "deployments" -> DEPLOYMENTS_TO_CHECK
                [] p = "daemonsets"  -> DAEMONSETS_TO_CHECK
                [] p = "endpoints"   -> ENDPOINTS_TO_CHECK
                [] OTHER             -> {}

NextGroup(p) == CASE p = "deployments" -> "daemonsets"
                  [] p = "daemonsets"  -> "endpoints"
                  [] OTHER             -> "extras"

InitT0 ==
    /\ t0pc = "idle" /\ t0pending = {}
    /\ t0status = [c \in ALL_COMPONENTS |-> NoComponent]
    /\ t0input = [c \in ALL_COMPONENTS |-> RaisingAnswer]
    /\ t0data = NoData

\* collect_t0 is called: the deployment probes are handed to gather()
T0Start ==
    /\ t0pc = "idle"
    /\ t0pc' = "deployments"
    /\ t0pending' = DEPLOYMENTS_TO_CHECK
    /\ UNCHANGED <<t0status, t0input, t0data, otherThanT0>>

\* one probe of the running gather() finishes
ProbeDone(c, a) ==
    /\ t0pc \in {"deployments", "daemonsets", "endpoints"}
    /\ c \in t0pending
    /\ t0pending' = t0pending \ {c}
    /\ t0status' = [t0status EXCEPT ![c] = ComponentStatus(c, a)]
    /\ t0input' = [t0input EXCEPT ![c] = a]
    /\ UNCHANGED <<t0pc, t0data, otherThanT0>>

\* gather() returns: data[<group>] is built and the next group is started
GroupDone ==
    /\ t0pc \in {"deployments", "daemonsets", "endpoints"}
    /\ t0pending = {}
    /\ t0pc' = NextGroup(t0pc)
    /\ t0pending' = GroupOf(NextGroup(t0pc))
    /\ UNCHANGED <<t0status, t0input, t0data, otherThanT0>>

\* data[<group>] = {status["name"]: status for status in <statuses> if status}
ByName(names, statuses) ==
    [n \in {s.name : s \in {statuses[c] : c \in names}} |->
        CHOOSE s \in {statuses[c] : c \in names} : s.name = n]

CountStatus(statuses, st) == Cardinality({c \in ALL_COMPONENTS : statuses[c].status = st})

\* the dict collect_t0 returns
Snapshot(statuses, podKey) ==
    [returned |-> TRUE,
     deployments |-> ByName(DEPLOYMENTS_TO_CHECK, statuses),
     daemonsets |-> ByName(DAEMONSETS_TO_CHECK, statuses),
     endpoints |-> ByName(ENDPOINTS_TO_CHECK, statuses),
     podKey |-> podKey,
     total_components |-> Cardinality(ALL_COMPONENTS),
     healthy_components |-> CountStatus(statuses, "healthy"),
     unhealthy_components |-> CountStatus(statuses, "unhealthy"),
     missing_components |-> CountStatus(statuses, "missing")]

\* controller health, pod overview or statistics, subnets, node network (each of
\* these catches its own exceptions), the summary, and the return
T0Finish(scope, hasPod) ==
    /\ t0pc = "extras"
    /\ t0data' = Snapshot(t0status,
                          IF scope = "single" /\ hasPod THEN "target_pod" ELSE "pod_stats")
    /\ t0pc' = "done"
    /\ UNCHANGED <<t0pending, t0status, t0input, otherThanT0>>

NextT0 ==
    \/ T0Start
    \/ \E c \in ALL_COMPONENTS, a \in T0Answers : ProbeDone(c, a)
    \/ GroupDone
    \/ \E sc \in {"single", "cluster"}, hp \in BOOLEAN : T0Finish(sc, hp)

-----------------------------------------------------------------------------
(* knowledge/retriever.py: MetadataRetriever *)

SelCategories == {"pod_to_pod", "pod_to_service"}
\* estimated_tokens of the documents of the model
Sizes == {900, 1000, 1200, 2000}
\* max_tokens of the calls of the model
MaxTokensChoices == {1500, 1600, 3000}
\* if remaining_tokens > 500
TruncationFloor == 500
\* characters per estimated token of the (non-Chinese) documents of the model
CharsPerToken == 4

NotScanned == [scanned |-> FALSE, list |-> <<>>]
NoCall == [category |-> "none", max_tokens |-> 0, keywords |-> FALSE, result |-> <<>>]

\* A Document. `trigger`: its triggers hold the keyword of the calls that pass
\* keywords. `len`: len(content). `truncated`: content ends with the marker.
Doc(id, size, prio, cat) ==
    [id |-> id, size |-> size, priority |-> prio, category |-> cat,
     trigger |-> id % 2 = 1, len |-> size * CharsPerToken, truncated |-> FALSE]

PriorityOrders == {"ascending", "descending", "equal"}
PriorityOf(order, i) == CASE order = "ascending"  -> i
                          [] order = "descending" -> MaxDocs + 1 - i
                          [] OTHER                -> 1

\* how many of the documents, the first ones, are of category "pod_to_pod"
CategorySplits == {2, MaxDocs}

\* the knowledge directories of the model: MaxDocs documents of any sizes, the
\* first k of them of one category and the others of the other
DocumentSets ==
    { [i \in 1..MaxDocs |->
         Doc(i, sz[i], PriorityOf(o, i),
             IF i <= k THEN "pod_to_pod" ELSE "pod_to_service")] :
      sz \in [1..MaxDocs -> Sizes], o \in PriorityOrders, k \in CategorySplits }

\* a cache that is not keyed by the category
scan_directory_any(sc, docs, cat) ==
    IF \E c \in SelCategories : sc[c].scanned
    THEN sc[CHOOSE c \in SelCategories : sc[c].scanned].list
    ELSE SelectSeq(docs, LAMBDA d : d.category = cat)

\* _scan_directory(category): the cached list, or the documents of the category
scan_directory(sc, docs, cat) ==
    IF sc[cat].scanned THEN sc[cat].list
    ELSE SelectSeq(docs, LAMBDA d : d.category = cat)

\* the keyword filter of retrieve()
FilterKeywords(list, keywords) ==
    IF keywords THEN SelectSeq(list, LAMBDA d : d.trigger) ELSE list

RECURSIVE InsertByPriority(_, _)
InsertByPriority(sorted, d) ==
    IF sorted = <<>> THEN <<d>>
    ELSE IF Head(sorted).priority <= d.priority
         THEN <<Head(sorted)>> \o InsertByPriority(Tail(sorted), d)
         ELSE <<d>> \o sorted

RECURSIVE SortedByPriority(_)
\* sorted(documents, key=lambda d: d.priority): stable
SortedByPriority(list) ==
    IF list = <<>> THEN <<>>
    ELSE InsertByPriority(SortedByPriority(SubSeq(list, 1, Len(list) - 1)),
                          list[Len(list)])

\* a copy whose size is still the size of the original
TruncatedCopyKeepingSize(d, remaining) ==
    [d EXCEPT !.len = (d.len * remaining) \div d.size,
              !.truncated = TRUE]

\* the truncated copy: content[:int(len(content) * ratio)] + marker, with
\* estimated_tokens = remaining_tokens
TruncatedCopy(d, remaining) ==
    [d EXCEPT !.len = (d.len * remaining) \div d.size,
              !.size = remaining,
              !.truncated = TRUE]

RECURSIVE Greedy(_, _, _)
\* the loop of retrieve() over the sorted documents
Greedy(list, total_tokens, max_tokens) ==
    IF list = <<>> THEN <<>>
    ELSE LET doc == Head(list) IN
         IF total_tokens + doc.size <= max_tokens
         THEN <<doc>> \o Greedy(Tail(list), total_tokens + doc.size, max_tokens)
         ELSE IF max_tokens - total_tokens > TruncationFloor
              THEN <<TruncatedCopy(doc, max_tokens - total_tokens)>>
              ELSE <<>>

\* what retrieve(category, max_tokens, keywords) returns
RetrieveResult(sc, docs, cat, max_tokens, keywords) ==
    Greedy(SortedByPriority(FilterKeywords(scan_directory(sc, docs, cat), keywords)),
           0, max_tokens)

InitSel ==
    /\ documents = <<>>
    /\ scanCache = [c \in SelCategories |-> NotScanned]
    /\ retrieved = NoCall

\* retrieve(category, max_tokens, keywords)
Retrieve(cat, max_tokens, keywords) ==
    /\ documents # <<>>
    /\ scanCache' = [scanCache EXCEPT ![cat] =
                        [scanned |-> TRUE,
                         list |-> scan_directory(scanCache, documents, cat)]]
    /\ retrieved' = [category |-> cat, max_tokens |-> max_tokens,
                     keywords |-> keywords,
                     result |-> RetrieveResult(scanCache, documents, cat,
                                               max_tokens, keywords)]
    /\ UNCHANGED <<documents, otherThanSel>>

\* clear_cache()
ClearScanCache ==
    /\ documents # <<>>
    /\ scanCache' = [c \in SelCategories |-> NotScanned]
    /\ UNCHANGED <<documents, retrieved, otherThanSel>>

NextSel ==
    \/ \E c \in SelCategories, m \in MaxTokensChoices, kw \in BOOLEAN :
          Retrieve(c, m, kw)
    \/ ClearScanCache

-----------------------------------------------------------------------------
(* knowledge/injector.py: KnowledgeInjector.inject_t0, and the system message
   LLMAgentAnalyzer.diagnose builds from it *)

ARCHITECTURE_BUDGET == 2000
SCENARIO_BUDGET == 7000

NoArch == [present |-> FALSE, size |-> 0, truncated |-> FALSE]
\* architecture.md: missing, within the budget, over the budget
ArchDocs == { NoArch,
              [present |-> TRUE, size |-> 1500, truncated |-> FALSE],
              [present |-> TRUE, size |-> 2500, truncated |-> FALSE] }

\* rules.get(rule_name, ""): the static rule of the category, "" when it has none
FallbackRules == {"", "static rule"}

\* the architecture document cut to its budget
WithinArchBudget(a) ==
    IF a.present /\ a.size > ARCHITECTURE_BUDGET
    THEN [a EXCEPT !.size = ARCHITECTURE_BUDGET, !.truncated = TRUE]
    ELSE a

\* f"## <rule header>\n{fallback_rule}"
FallbackText(rule) == [kind |-> "fallback_rule", rule |-> rule, arch |-> NoArch,
                       docs |-> <<>>]
\* "## knowledge base is empty ..."
EmptyNotice == [kind |-> "empty_notice", rule |-> "", arch |-> NoArch, docs |-> <<>>]
\* _build_knowledge_section(arch_doc, scenario_docs)
KnowledgeText(a, docs) == [kind |-> "knowledge", rule |-> "", arch |-> a,
                           docs |-> docs]

\* inject_t0(category, fallback_rule): <<text, success>>; `raises`: the retriever
\* raises in one of the two calls
inject_t0(a, sc, docs, category, fallback_rule, raises) ==
    IF raises THEN <<FallbackText(fallback_rule), FALSE>>
    ELSE LET arch_doc == WithinArchBudget(a)
             scenario_docs == RetrieveResult(sc, docs, category, SCENARIO_BUDGET, FALSE)
         IN  IF ~arch_doc.present /\ scenario_docs = <<>>
             THEN IF fallback_rule # "" THEN <<FallbackText(fallback_rule), FALSE>>
                  ELSE <<EmptyNotice, FALSE>>
             ELSE <<KnowledgeText(arch_doc, scenario_docs), TRUE>>

NoBriefing == [category |-> "none", rule |-> "", text |-> EmptyNotice,
               success |-> FALSE, raised |-> FALSE]

InitInj == archDoc = NoArch /\ briefing = NoBriefing

\* Phase 2 of diagnose(): KnowledgeInjector() (which builds a retriever and may
\* raise), inject_t0, SystemMessage(content=knowledge_text); the except branch
\* builds the system message from the static rule
Inject(category, fallback_rule, ctorRaises, retrieverRaises) ==
    /\ documents # <<>>
    /\ LET r == inject_t0(archDoc, [c \in SelCategories |-> NotScanned], documents,
                          category, fallback_rule, retrieverRaises)
       IN  briefing' = [category |-> category, rule |-> fallback_rule,
                        text |-> IF ctorRaises THEN FallbackText(fallback_rule)
                                 ELSE r[1],
                        success |-> IF ctorRaises THEN FALSE ELSE r[2],
                        raised |-> FALSE]
    /\ UNCHANGED <<archDoc, selVars, otherThanInj>>

NextInj ==
    \E c \in SelCategories, f \in FallbackRules, cr \in BOOLEAN, rr \in BOOLEAN :
        Inject(c, f, cr, rr)

-----------------------------------------------------------------------------
(* collectors/resource_collector.py: _parse_ovn_trace_output *)

\* a flow path line must be shorter than this, and the path keeps this many
FlowLineLimit == 200
FlowPathLimit == 20

\* Python's None in output_nic, drop_reason and the key stages
NoValue == "<None>"

LoopbackOmitLine ==
    "/* omitting output because inport == outport && !flags.loopback */"
\* "ct_next(" followed by 200 more characters and ");"
LongLine == "ct_next(...200 characters...);"

\* line.strip() of the lines a trace of the model is made of
TraceLines ==
    {"", "next;", "output;", "output port eth0;", "output port ovn0;",
     "output port None;", "/* No route to host */", "drop;", "acl drop;",
     "policy drop;", "reject;", "ct(commit);", "ct_dnat(10.0.0.1);",
     LoopbackOmitLine, LongLine}

\* len(line_stripped)
LineLength(line) == IF line = LongLine THEN 210 ELSE Len(line)

\* re.search(loopback_pattern, line_stripped, re.IGNORECASE)
loopback_pattern(line) == line = LoopbackOmitLine

\* "nat(" in line_stripped.lower() or "nat)" in line_stripped.lower()
MentionsNatCall(line) == line = "ct_dnat(10.0.0.1);"

\* "output;" in line_stripped
MentionsOutputAction(line) == line = "output;"

\* group(1).strip('(");') of every pattern of output_patterns that matches
\* the line, in the order of the patterns
output_patterns(line) ==
    CASE line = "output port eth0;" -> <<"eth0">>
      [] line = "output port ovn0;" -> <<"ovn0">>
      [] line = "output port None;" -> <<"None">>
      [] line = "/* No route to host */" -> <<"host">>
      [] OTHER -> <<>>

\* output_nic and output_nic not in ["None", "-", "[]"]
ValidNic(nic) == nic \notin {"", "None", "-", "[]"}

\* a scan that keeps the first interface it captured
CapturedNicFirstWins(line, output_nic) ==
    LET valid == SelectSeq(output_patterns(line), ValidNic)
    IN  IF valid # <<>> /\ output_nic = NoValue THEN Head(valid)
        ELSE output_nic

\* the loop over output_patterns: the first valid capture is stored and ends
\* the loop, with none the earlier value stays
CapturedNic(line, output_nic) ==
    LET valid == SelectSeq(output_patterns(line), ValidNic)
    IN  IF valid # <<>> THEN Head(valid) ELSE output_nic

\* any pattern of drop_patterns matches the line
drop_patterns(line) == line \in {"drop;", "acl drop;", "policy drop;", "reject;"}

\* any(keyword in line_stripped.lower() for keyword in flow_keywords)
flow_keywords(line) ==
    line \in {"output;", "output port eth0;", "output port ovn0;",
              "output port None;", "acl drop;", "reject;", "ct(commit);",
              "ct_dnat(10.0.0.1);", LoopbackOmitLine, LongLine}

\* the substring tests of the analysis and of the key stages
MentionsAcl(text) == text = "acl drop;"
MentionsPolicy(text) == text = "policy drop;"
MentionsCt(text) == text = "ct(commit);"
MentionsNat(text) == text = "ct_dnat(10.0.0.1);"
MentionsOutput(text) ==
    text \in {"output;", "output port eth0;", "output port ovn0;",
              "output port None;", LoopbackOmitLine}

\* any(prefix in output_nic for prefix in ["eth", "ens", "eno", "enp"])
IsPhysicalNic(nic) == nic = "eth0"

\* the locals and the result dict before the first line
ScanStart ==
    [output_nic |-> NoValue, final_verdict |-> "unknown",
     drop_reason |-> NoValue, flow_path |-> <<>>,
     has_loopback_omit |-> FALSE, has_nat |-> FALSE,
     has_output_action |-> FALSE]

ScanLineNoNic(st, line) ==
    [output_nic |-> st.output_nic,
     final_verdict |-> IF drop_patterns(line) THEN "dropped"
                       ELSE st.final_verdict,
     drop_reason |-> IF drop_patterns(line) /\ st.final_verdict # "dropped"
                     THEN line ELSE st.drop_reason,
     flow_path |-> IF flow_keywords(line) /\ LineLength(line) < FlowLineLimit
                   THEN Append(st.flow_path, line) ELSE st.flow_path,
     has_loopback_omit |-> st.has_loopback_omit \/ loopback_pattern(line),
     has_nat |-> st.has_nat \/ MentionsNatCall(line),
     has_output_action |-> st.has_output_action \/ MentionsOutputAction(line)]

\* one pass of the loop over the lines
ScanLine(st, line) ==
    [output_nic |-> CapturedNic(line, st.output_nic),
     final_verdict |-> IF drop_patterns(line) THEN "dropped"
                       ELSE st.final_verdict,
     drop_reason |-> IF drop_patterns(line) /\ st.final_verdict # "dropped"
                     THEN line ELSE st.drop_reason,
     flow_path |-> IF flow_keywords(line) /\ LineLength(line) < FlowLineLimit
                   THEN Append(st.flow_path, line) ELSE st.flow_path,
     has_loopback_omit |-> st.has_loopback_omit \/ loopback_pattern(line),
     has_nat |-> st.has_nat \/ MentionsNatCall(line),
     has_output_action |-> st.has_output_action \/ MentionsOutputAction(line)]

RECURSIVE ScanLines(_, _)
ScanLines(st, lines) ==
    IF lines = <<>> THEN st
    ELSE ScanLines(ScanLine(st, Head(lines)), Tail(lines))

\* a sentence of the analysis or a next step: a fixed text and what is
\* formatted into it
Text(t) == [text |-> t, about |-> NoValue]
TextAbout(t, a) == [text |-> t, about |-> a]

\* the real-capture steps of the loopback case
PodCapture == Text("1. collect_tcpdump on the veth of the pod")
RouteInspection == Text("2. collect_node_ip_route: the egress nic")
PhysicalCapture == Text("3. collect_node_tcpdump on the physical egress nic")
ExternalNetwork == Text("4. packets on both and no reply: external network")

LoopbackStepsRouteLast ==
    << PodCapture, PhysicalCapture, RouteInspection, ExternalNetwork >>

LoopbackSteps ==
    << PodCapture, RouteInspection, PhysicalCapture, ExternalNetwork >>

\* the one step of a bare output action
CaptureAndVerify == Text("capture on the real nic to verify")

\* result["analysis"] as the loopback branch assigns it
LoopbackAnalysis(has_nat) ==
    IF has_nat THEN << Text("NAT then the loopback rule: capture to verify") >>
    ELSE << Text("held by the loopback check: capture suggested") >>

\* the verdict, analysis_parts and next_steps of the four cases, in the
\* order of the if / elif chain
Resolved(st) ==
    IF st.has_loopback_omit
    THEN [final_verdict |-> "needs_verification",
          assigned |-> LoopbackAnalysis(st.has_nat),
          analysis_parts |-> << Text("loopback check in the logical path"),
                                Text("a limit of the simulation, not a drop") >>,
          next_steps |-> LoopbackSteps]
    ELSE IF st.output_nic # NoValue
    THEN [final_verdict |-> "allowed",
          assigned |-> <<>>,
          analysis_parts |->
              << TextAbout("traffic leaves through", st.output_nic),
                 IF IsPhysicalNic(st.output_nic)
                 THEN Text("physical nic: leaves the OVN network")
                 ELSE Text("virtual nic: still inside the OVN network") >>,
          next_steps |->
              IF IsPhysicalNic(st.output_nic)
              THEN << TextAbout("tcpdump on", st.output_nic),
                      Text("no reply: external network, not Kube-OVN") >>
              ELSE << TextAbout("tcpdump on", st.output_nic),
                      Text("follow the traffic to the next hop") >>]
    ELSE IF st.final_verdict = "dropped"
    THEN [final_verdict |-> "dropped",
          assigned |-> <<>>,
          analysis_parts |->
              IF MentionsAcl(st.drop_reason)
              THEN << Text("dropped by an ACL") >>
              ELSE IF MentionsPolicy(st.drop_reason)
              THEN << Text("dropped by a network policy") >>
              ELSE << TextAbout("dropped:", st.drop_reason) >>,
          next_steps |->
              IF MentionsAcl(st.drop_reason)
              THEN << Text("check network policies and ACLs"),
                      Text("ovn-nbctl: the ACL rules") >>
              ELSE IF MentionsPolicy(st.drop_reason)
              THEN << Text("check the NetworkPolicy objects") >>
              ELSE << Text("check OVN flows and logs") >>]
    ELSE IF st.has_output_action
    THEN [final_verdict |-> "allowed",
          assigned |-> <<>>,
          analysis_parts |-> << Text("output action seen: should be allowed") >>,
          next_steps |-> << CaptureAndVerify >>]
    ELSE [final_verdict |-> st.final_verdict,
          assigned |-> <<>>,
          analysis_parts |-> <<>>,
          next_steps |-> <<>>]

\* a flow path that is never cut
FirstStepsUncut(flow_path) == flow_path

\* result["flow_path"][:20]
FirstSteps(flow_path) ==
    SubSeq(flow_path, 1, IF Len(flow_path) < FlowPathLimit THEN Len(flow_path)
                         ELSE FlowPathLimit)

\* the key stage a step of the flow path is filed under
StageOf(step, output_nic) ==
    IF MentionsCt(step) THEN "conntrack"
    ELSE IF MentionsNat(step) THEN "nat"
    ELSE IF MentionsAcl(step) THEN "acl"
    ELSE IF MentionsOutput(step) /\ output_nic # NoValue THEN "output"
    ELSE "none"

\* result["key_stages"]: the last step filed under each stage
KeyStages(flow_path, output_nic) ==
    [stage \in {"conntrack", "nat", "acl", "output"} |->
        LET filed == SelectSeq(flow_path,
                               LAMBDA s : StageOf(s, output_nic) = stage)
        IN  IF filed = <<>> THEN NoValue ELSE filed[Len(filed)]]

\* the dict the parser returns; result["analysis"] is assigned in the
\* loopback branch and then assigned again from analysis_parts
parse_ovn_trace_output(lines) ==
    LET st == ScanLines(ScanStart, lines)
        r == Resolved(st)
        first == [analysis |-> r.assigned]
        last == [first EXCEPT !.analysis = r.analysis_parts]
        path == FirstSteps(st.flow_path)
    IN  [output_nic |-> st.output_nic,
         final_verdict |-> r.final_verdict,
         drop_reason |-> st.drop_reason,
         flow_path |-> path,
         key_stages |-> KeyStages(path, st.output_nic),
         analysis |-> last.analysis,
         next_steps |-> r.next_steps]

NoParse ==
    [output_nic |-> NoValue, final_verdict |-> "not parsed",
     drop_reason |-> NoValue, flow_path |-> <<>>,
     key_stages |-> [stage \in {"conntrack", "nat", "acl", "output"} |-> NoValue],
     analysis |-> <<>>, next_steps |-> <<>>]

\* the text of the model before a trace is drawn: the empty text
InitTrace == traceIn = <<"">> /\ traceOut = NoParse

\* every text of one to MaxLines lines
ShortTraces == UNION {[1..n -> TraceLines] : n \in 1..MaxLines}

\* texts longer than the flow path may get: one line over and over, then
\* one more line
LongTraces ==
    {[i \in 1..(FlowPathLimit + 2) |-> IF i <= FlowPathLimit + 1 THEN l ELSE m] :
        l \in TraceLines, m \in TraceLines}

Traces == ShortTraces \cup LongTraces

Parse ==
    /\ traceOut = NoParse
    /\ traceOut' = parse_ovn_trace_output(traceIn)
    /\ UNCHANGED <<traceIn, otherThanTrace>>

NextTrace == Parse

-----------------------------------------------------------------------------
(* collectors/k8s_client.py: KubectlWrapper.run over the global K8sCache *)

\* what subprocess.run does with the command: it exits 0 with an output,
\* exits non-zero with a stderr text that may be empty, outlives the
\* timeout, or cannot be started
Outcomes ==
    {[kind |-> "exit0", data |-> d, stderr |-> ""] : d \in Data}
    \cup {[kind |-> "nonzero", data |-> "none", stderr |-> s] :
              s \in {"", "Error from server"}}
    \cup {[kind |-> "timeout", data |-> "none", stderr |-> ""],
          [kind |-> "launch", data |-> "none", stderr |-> ""]}

NoException == "none"

\* the exception subprocess.run leaves the try block with
RaisedBy(o) ==
    CASE o.kind = "timeout" -> "TimeoutExpired"
      [] o.kind = "launch" -> "FileNotFoundError"
      [] OTHER -> NoException

\* self.enable_cache and use_cache and self.cache: K8sCache defines __len__,
\* so a cache without entries is false
CacheInUse(enabled, use_cache, c) == enabled /\ use_cache /\ c # <<>>

CaughtByNothing(e) == FALSE

\* except Exception: every class the block can raise derives from Exception
CaughtByException(e) ==
    e \in {"TimeoutExpired", "FileNotFoundError", "UnboundLocalError"}

Response(success, data, error, cached, executed, raised) ==
    [success |-> success, data |-> data, error |-> error, cached |-> cached,
     executed |-> executed, raised |-> raised]

\* the two handlers of the try block, in their order
Handled(e) ==
    IF e = "TimeoutExpired"
    THEN Response(FALSE, "none", "Command timed out", "absent", TRUE, FALSE)
    ELSE IF CaughtByException(e)
    THEN Response(FALSE, "none", "str(e)", "absent", TRUE, FALSE)
    ELSE Response(FALSE, "none", NoValue, "absent", TRUE, TRUE)

\* a run() that stores the result of a command that exited non-zero
runStoringFailures(c, enabled, k, use_cache, o, t) ==
    LET lookup == CacheInUse(enabled, use_cache, c)
        g == CacheGet(c, k, t)
        c1 == IF lookup THEN g.cache ELSE c
        store == CacheInUse(enabled, use_cache, c1)
        s == CacheSet(c1, k, o.data, t)
        quiet == [cache |-> c1, got |-> lookup, hit |-> FALSE,
                  stored |-> FALSE, evicted |-> FALSE]
    IN  IF lookup /\ g.hit
        THEN [quiet EXCEPT !.hit = TRUE] @@
             [response |-> Response(TRUE, g.ret, NoValue, "true", FALSE, FALSE)]
        ELSE IF RaisedBy(o) # NoException
        THEN quiet @@ [response |-> Handled(RaisedBy(o))]
        ELSE IF ~store
        THEN quiet @@ [response |->
                 Response(o.kind = "exit0", o.data, NoValue, "absent", TRUE, FALSE)]
        ELSE IF ~lookup
        THEN quiet @@ [response |-> Handled("UnboundLocalError")]
        ELSE [cache |-> s.cache, got |-> lookup, hit |-> FALSE,
              stored |-> TRUE, evicted |-> s.evicted] @@
             [response |->
                 Response(o.kind = "exit0", o.data, NoValue, "false", TRUE, FALSE)]

\* run(cmd, timeout, use_cache) at time t, k the cache key of cmd and timeout:
\* the cache afterwards, the cache operations done, and the dict returned
run(c, enabled, k, use_cache, o, t) ==
    LET lookup == CacheInUse(enabled, use_cache, c)
        g == CacheGet(c, k, t)
        c1 == IF lookup THEN g.cache ELSE c
        store == CacheInUse(enabled, use_cache, c1)
        s == CacheSet(c1, k, o.data, t)
        quiet == [cache |-> c1, got |-> lookup, hit |-> FALSE,
                  stored |-> FALSE, evicted |-> FALSE]
    IN  IF lookup /\ g.hit
        THEN [quiet EXCEPT !.hit = TRUE] @@
             [response |-> Response(TRUE, g.ret, NoValue, "true", FALSE, FALSE)]
        ELSE IF RaisedBy(o) # NoException
        THEN quiet @@ [response |-> Handled(RaisedBy(o))]
        ELSE IF o.kind = "nonzero"
        THEN quiet @@ [response |->
                 Response(FALSE, "none", o.stderr, "absent", TRUE, FALSE)]
        ELSE IF ~store
        THEN quiet @@ [response |->
                 Response(TRUE, o.data, NoValue, "absent", TRUE, FALSE)]
        ELSE IF ~lookup
        THEN quiet @@ [response |-> Handled("UnboundLocalError")]
        ELSE [cache |-> s.cache, got |-> lookup, hit |-> FALSE,
              stored |-> TRUE, evicted |-> s.evicted] @@
             [response |-> Response(TRUE, o.data, NoValue, "false", TRUE, FALSE)]

NoRun == [key |-> 0, use_cache |-> FALSE, outcome |-> "none",
          response |-> Response(FALSE, "none", NoValue, "absent", FALSE, FALSE)]

InitRun == enable_cache = TRUE /\ runOut = NoRun

Run(k, use_cache, o) ==
    /\ opCount < MaxRuns
    /\ LET r == run(cache, enable_cache, k, use_cache, o, now) IN
         /\ cache' = r.cache
         /\ hits' = IF r.got /\ r.hit THEN hits + 1 ELSE hits
         /\ misses' = IF r.got /\ ~r.hit THEN misses + 1 ELSE misses
         /\ evictions' = IF r.evicted THEN evictions + 1 ELSE evictions
         /\ lastOp' = IF r.stored
                      THEN [op |-> "set", key |-> k, data |-> o.data,
                            ret |-> "none", at |-> now, afterSet |-> FALSE]
                      ELSE IF r.got
                      THEN [op |-> "get", key |-> k, data |-> "none",
                            ret |-> IF r.hit THEN r.response.data ELSE Miss,
                            at |-> now,
                            afterSet |-> lastOp.op = "set" /\ lastOp.key = k]
                      ELSE lastOp
         /\ recency' = LET touched == IF r.hit \/ r.stored
                                      THEN Append(Dropped(recency, {k}), k)
                                      ELSE IF r.got THEN Dropped(recency, {k})
                                      ELSE recency
                       IN  Dropped(touched, {e.key : e \in Range(cache)}
                                            \ ({e.key : e \in Range(r.cache)} \cup {k}))
         /\ runOut' = [key |-> k, use_cache |-> use_cache, outcome |-> o.kind,
                       response |-> r.response]
    /\ opCount' = opCount + 1
    /\ UNCHANGED <<now, enable_cache, otherThanRun>>

\* the commands of the model, as their cache keys, and the key another user
\* of get_cache() stores under
RunKeys == {1, 2}
ForeignKey == MaxSize + 1

\* get_cache().set(key, data) by another user of the global cache
ForeignSet(d) == opCount < MaxRuns /\ Set(ForeignKey, d)

\* run() calls, the clock, and the other user
NextRun ==
    \/ \E k \in RunKeys, u \in BOOLEAN, o \in Outcomes : Run(k, u, o)
    \/ \E d \in Data : ForeignSet(d)
    \/ Tick

-----------------------------------------------------------------------------
(* collectors/t0_collector.py: _execute_with_limit and the probes it runs *)

\* max_concurrent of the three calls in collect_t0
max_concurrent == 3

\* a coroutine handed to gather is "created" until run_with_semaphore has
\* the semaphore, then the probe fetches the status ("status"), then, for a
\* component that is not healthy, describe output and logs ("detail"), and
\* it is "done" once the probe has returned and the semaphore is released
TaskStates == {"created", "status", "detail", "done"}

\* the probes inside "async with semaphore"
Holding(ts) == {t \in DOMAIN ts : ts[t] \in {"status", "detail"}}

\* a semaphore that lets everyone in
LockedNever(value) == FALSE

\* Semaphore.locked()
Locked(value) == value = 0

\* one coroutine handed to gather, as collect_t0 has three per category
InitLim == tasks = <<"created">> /\ semaphore = max_concurrent

\* async with semaphore: the waiters are served in the order gather
\* started them
Acquire(t) ==
    /\ tasks[t] = "created"
    /\ \A u \in DOMAIN tasks : u < t => tasks[u] # "created"
    /\ ~Locked(semaphore)
    /\ tasks' = [tasks EXCEPT ![t] = "status"]
    /\ semaphore' = semaphore - 1
    /\ UNCHANGED otherThanLim

\* the status says not healthy: the probe goes on to fetch describe output
\* and pod logs, inside the same await
FetchDetail(t) ==
    /\ tasks[t] = "status"
    /\ tasks' = [tasks EXCEPT ![t] = "detail"]
    /\ UNCHANGED <<semaphore, otherThanLim>>

\* the probe returns, or raises, and the async with block is left
Release(t) ==
    /\ tasks[t] \in {"status", "detail"}
    /\ tasks' = [tasks EXCEPT ![t] = "done"]
    /\ semaphore' = semaphore + 1
    /\ UNCHANGED otherThanLim

NextLimit ==
    \/ \E t \in DOMAIN tasks : Acquire(t)
    \/ \E t \in DOMAIN tasks : FetchDetail(t)
    \/ \E t \in DOMAIN tasks : Release(t)

-----------------------------------------------------------------------------
(* collectors/cache.py: K8sCache under concurrent callers *)

\* the threads that call into one K8sCache
Threads == {1, 2}
NoThread == 0

NoSight == [by |-> "none", size |-> 0]

InitLock ==
    /\ lkStore = <<>> /\ lkOwner = NoThread
    /\ lkPc = [t \in Threads |-> "idle"]
    /\ lkKey = [t \in Threads |-> 1]
    /\ lkSeen = NoSight

\* a thread calls set(key, data)
CallSet(t, k) ==
    /\ lkPc[t] = "idle"
    /\ lkPc' = [lkPc EXCEPT ![t] = "set_lock"]
    /\ lkKey' = [lkKey EXCEPT ![t] = k]
    /\ UNCHANGED <<lkStore, lkOwner, lkSeen, otherThanLock>>

\* with self._lock: of set, of another thread's point of view
SetLock(t) ==
    /\ lkPc[t] = "set_lock" /\ lkOwner = NoThread
    /\ lkOwner' = t
    /\ lkPc' = [lkPc EXCEPT ![t] = "set_delete"]
    /\ UNCHANGED <<lkStore, lkKey, lkSeen, otherThanLock>>

\* if key in self._cache: del self._cache[key]
SetDelete(t) ==
    /\ lkPc[t] = "set_delete"
    /\ lkStore' = SelectSeq(lkStore, LAMBDA k : k # lkKey[t])
    /\ lkPc' = [lkPc EXCEPT ![t] = "set_insert"]
    /\ UNCHANGED <<lkOwner, lkKey, lkSeen, otherThanLock>>

\* self._cache[key] = (data, datetime.now())
SetInsert(t) ==
    /\ lkPc[t] = "set_insert"
    /\ lkStore' = Append(lkStore, lkKey[t])
    /\ lkPc' = [lkPc EXCEPT ![t] = "set_evict"]
    /\ UNCHANGED <<lkOwner, lkKey, lkSeen, otherThanLock>>

\* if len(self._cache) > self.max_size: popitem(last=False), and the lock
\* is released
SetEvict(t) ==
    /\ lkPc[t] = "set_evict"
    /\ lkStore' = IF Len(lkStore) > MaxSize THEN Tail(lkStore) ELSE lkStore
    /\ lkOwner' = NoThread
    /\ lkPc' = [lkPc EXCEPT ![t] = "idle"]
    /\ UNCHANGED <<lkKey, lkSeen, otherThanLock>>

\* a thread calls get_stats()
CallStats(t) ==
    /\ lkPc[t] = "idle"
    /\ lkPc' = [lkPc EXCEPT ![t] = "stats_lock"]
    /\ UNCHANGED <<lkStore, lkOwner, lkKey, lkSeen, otherThanLock>>

\* with self._lock: "size": len(self._cache), and the lock is released
StatsRead(t) ==
    /\ lkPc[t] = "stats_lock" /\ lkOwner = NoThread
    /\ lkSeen' = [by |-> "get_stats", size |-> Len(lkStore)]
    /\ lkPc' = [lkPc EXCEPT ![t] = "idle"]
    /\ UNCHANGED <<lkStore, lkOwner, lkKey, otherThanLock>>

\* a thread calls len(cache): __len__ returns len(self._cache) and takes
\* no lock
CallLen(t) ==
    /\ lkPc[t] = "idle"
    /\ lkSeen' = [by |-> "__len__", size |-> Len(lkStore)]
    /\ UNCHANGED <<lkStore, lkOwner, lkPc, lkKey, otherThanLock>>

NextLock ==
    \/ \E t \in Threads, k \in Keys : CallSet(t, k)
    \/ \E t \in Threads : SetLock(t)
    \/ \E t \in Threads : SetDelete(t)
    \/ \E t \in Threads : SetInsert(t)
    \/ \E t \in Threads : SetEvict(t)
    \/ \E t \in Threads : CallStats(t)
    \/ \E t \in Threads : StatsRead(t)
    \/ \E t \in Threads : CallLen(t)

-----------------------------------------------------------------------------
(* knowledge/rules.py: match_rule, and classifier.py: IntelligentClassifier *)

None == "<None>"

\* os.getenv of the three variables the constructor reads
Environments ==
    [LLM_API_KEY : {None, "sk-llm"},
     OPENAI_API_KEY : {None, "sk-openai"},
     LLM_API_BASE : {None, "https://open.bigmodel.cn/api/paas/v4",
                     "https://api.openai.com/v1"}]

\* self.api_key = api_key or os.getenv("LLM_API_KEY") or
\* os.getenv("OPENAI_API_KEY"), with api_key None
ApiKeyOf(e) ==
    IF e.LLM_API_KEY # None THEN e.LLM_API_KEY ELSE e.OPENAI_API_KEY

\* "bigmodel.cn" in self.base_url
MentionsBigmodel(base_url) == base_url = "https://open.bigmodel.cn/api/paas/v4"

\* IntelligentClassifier(): the exception it raises, or the instance, told
\* by its self.model
IntelligentClassifier(e) ==
    IF ApiKeyOf(e) = None
    THEN [raised |-> "ValueError", instance |-> None]
    ELSE IF e.LLM_API_BASE = None
    THEN [raised |-> "TypeError", instance |-> None]
    ELSE [raised |-> NoException,
          instance |-> IF MentionsBigmodel(e.LLM_API_BASE)
                       THEN "glm-4-flash" ELSE "gpt-4o-mini"]

\* what self.client.invoke(messages) gives: a message with a content, or
\* an exception
Contents ==
    {"general", "pod_to_pod", "pod_to_pod_cross_node", "pod_to_service",
     "pod_to_external", " pod_to_service\n", ""}
Invocations ==
    [raised : {NoException}, content : Contents]
        \cup [raised : {"Exception"}, content : {""}]

\* response.content.strip()
Strip(content) ==
    IF content = " pod_to_service\n" THEN "pod_to_service" ELSE content

\* classify(query): the classification, or the exception it raises
classify(i) ==
    IF i.raised # NoException \/ i.content = ""
    THEN [raised |-> "Exception", category |-> None, confidence |-> None]
    ELSE [raised |-> NoException, category |-> Strip(i.content),
          confidence |-> "0.8"]

Returned(category, confidence) ==
    [raised |-> NoException, category |-> category, confidence |-> confidence]
Raised(exception) ==
    [raised |-> exception, category |-> None, confidence |-> None]

\* match_rule(user_query): what the caller gets and what _classifier is
\* afterwards; the constructor runs before the try: block
match_rule(instance, e, i) ==
    LET made == IF instance = None THEN IntelligentClassifier(e)
                ELSE [raised |-> NoException, instance |-> instance]
        classified == classify(i)
    IN  IF made.raised # NoException
        THEN [out |-> Raised(made.raised), instance |-> None]
        ELSE IF classified.raised # NoException
        THEN [out |-> Returned("general", "0.0"), instance |-> made.instance]
        ELSE [out |-> Returned(classified.category, classified.confidence),
              instance |-> made.instance]

Queries ==
    {"external network unreachable", "cannot reach service nginx-svc",
     "pod on node1 cannot reach pod on node2",
     "nginx pod cannot connect to app pod"}

NoMatch == [raised |-> NoException, category |-> "<not called>",
            confidence |-> None]

InitMatch ==
    /\ environ = [LLM_API_KEY |-> None, OPENAI_API_KEY |-> None,
                  LLM_API_BASE |-> None]
    /\ classifier = None /\ user_query = "" /\ matchOut = NoMatch

MatchRule(q, i) ==
    /\ user_query' = q
    /\ matchOut' = match_rule(classifier, environ, i).out
    /\ classifier' = match_rule(classifier, environ, i).instance
    /\ UNCHANGED <<environ, otherThanMatch>>

NextMatch == \E q \in Queries, i \in Invocations : MatchRule(q, i)

-----------------------------------------------------------------------------
(* The specifications *)

Init ==
    /\ InitDiag /\ InitCache /\ InitT0 /\ InitProbe /\ InitSel /\ InitInj
    /\ InitTrace /\ InitRun /\ InitLim /\ InitLock /\ InitMatch

SpecDiag == Init /\ [][NextDiag]_vars

SpecCache == Init /\ [][NextCache]_vars

SpecT0 == Init /\ [][NextT0]_vars

\* a probe on every answer of the cluster
InitAnyProbe ==
    /\ InitDiag /\ InitCache /\ InitT0 /\ InitSel /\ InitInj /\ InitTrace /\ InitRun /\ InitLim /\ InitLock /\ InitMatch
    /\ probeIn \in ProbeInputs /\ probeOut = NoStatus /\ probeMsg = NoMessage

SpecProbe == InitAnyProbe /\ [][NextProbe]_vars

\* a retriever over every knowledge directory of the model
InitAnyDocuments ==
    /\ InitDiag /\ InitCache /\ InitT0 /\ InitProbe /\ InitInj /\ InitTrace /\ InitRun /\ InitLim /\ InitLock /\ InitMatch
    /\ documents \in DocumentSets
    /\ scanCache = [c \in SelCategories |-> NotScanned]
    /\ retrieved = NoCall

SpecSel == InitAnyDocuments /\ [][NextSel]_vars

\* an injection over every knowledge directory of the model
InitAnyKnowledge ==
    /\ InitDiag /\ InitCache /\ InitT0 /\ InitProbe /\ InitTrace /\ InitRun /\ InitLim /\ InitLock /\ InitMatch
    /\ documents \in DocumentSets
    /\ scanCache = [c \in SelCategories |-> NotScanned]
    /\ retrieved = NoCall
    /\ archDoc \in ArchDocs /\ briefing = NoBriefing

SpecInj == InitAnyKnowledge /\ [][NextInj]_vars

\* the parser on every trace of the model
InitAnyTrace ==
    /\ InitDiag /\ InitCache /\ InitT0 /\ InitProbe /\ InitSel /\ InitInj
    /\ InitRun /\ InitLim /\ InitLock /\ InitMatch
    /\ traceIn \in Traces /\ traceOut = NoParse

SpecTrace == InitAnyTrace /\ [][NextTrace]_vars

\* a wrapper with the cache enabled or not
InitAnyWrapper ==
    /\ InitDiag /\ InitCache /\ InitT0 /\ InitProbe /\ InitSel /\ InitInj
    /\ InitTrace /\ InitLim /\ InitLock /\ InitMatch
    /\ enable_cache \in BOOLEAN /\ runOut = NoRun

SpecRun == InitAnyWrapper /\ [][NextRun]_vars

\* _execute_with_limit over one to MaxTasks probes
InitAnyTasks ==
    /\ InitDiag /\ InitCache /\ InitT0 /\ InitProbe /\ InitSel /\ InitInj
    /\ InitTrace /\ InitRun /\ InitLock /\ InitMatch
    /\ \E n \in 1..MaxTasks : tasks = [t \in 1..n |-> "created"]
    /\ semaphore = max_concurrent

SpecLimit == InitAnyTasks /\ [][NextLimit]_vars

InitAnyEnvironment ==
    /\ InitDiag /\ InitCache /\ InitT0 /\ InitProbe /\ InitSel /\ InitInj
    /\ InitTrace /\ InitRun /\ InitLim /\ InitLock
    /\ environ \in Environments
    /\ classifier = None /\ user_query = "" /\ matchOut = NoMatch

SpecLock == Init /\ [][NextLock]_vars

SpecMatch == InitAnyEnvironment /\ [][NextMatch]_vars

-----------------------------------------------------------------------------
(* Properties of the round controller *)

Terminal == {"completed", "max_rounds_reached", "failed", "general"}

\* the entries of a collected list whose output reports an error, in order
ErrorsOf(tools) == SelectSeq(tools, LAMBDA e : e.output = "err")

\* C1: when the event stream ends and no tool-free final message has been
\* returned, diagnose() returns status completed with fallback = true and a
\* diagnosis built from the tool outputs collected so far (its evidence is the
\* erroring outputs, in order); the result is neither failed nor
\* max_rounds_reached, and carries the rounds and outputs recorded so far.
C1_StreamEndGivesFallback ==
    [][ (pc = "loop" /\ fw = "end" /\ pc' # "loop")
        => /\ result'.status = "completed"
           /\ result'.fallback
           /\ result'.diagnosis.kind = "fallback"
           /\ result'.diagnosis.evidence = ErrorsOf(collected)
           /\ (collected = <<>>) = (result'.diagnosis.root_cause = "no_tool_output")
           /\ result'.collected = collected
           /\ result'.rounds = rounds ]_vars

C1_Witness ==
    /\ result.fallback
    /\ result.status = "completed"
    /\ Len(result.collected) = 2
    /\ Len(result.diagnosis.evidence) = 1

\* C2 (as claimed): diagnose() never propagates an exception to its caller.
C2_NeverRaises == pc # "raised"

\* C3 (as claimed): a query classified as general never reaches the reasoning
\* collaborator, with or without a progress callback.
C3_GeneralNeverInvokesAgent == (rule_name = "general") => ~agentInvoked

\* C4: a step-limit fault of the framework gives status max_rounds_reached, any
\* other fault gives failed, and in both cases the result carries exactly the
\* rounds and the tool outputs recorded before the fault.
C4_FaultStatusAndPartialState ==
    [][ (lastFault = "none" /\ lastFault' # "none")
        => /\ (lastFault' = "step_limit") => (result'.status = "max_rounds_reached")
           /\ (lastFault' # "step_limit") => (result'.status = "failed")
           /\ result'.rounds = rounds
           /\ result'.collected = collected ]_vars

C4_Witness ==
    /\ lastFault = "step_limit"
    /\ result.status = "max_rounds_reached"
    /\ Len(result.rounds) = 2
    /\ Len(result.collected) = 2

\* C5 (as claimed): the number of recorded rounds never exceeds max_rounds.
C5_RoundsWithinMaxRounds == (pc = "loop") => (Len(rounds) <= max_rounds)

\* C6: one pending thought at most. A tool-started event attaches the pending
\* thought to the round it creates and clears the slot; the pending thought is
\* always the latest decoded message that requests tools; no thought is on two
\* rounds; and a round never carries the thought of a message decoded after its
\* tool started.
C6_PendingThoughtPairing ==
    [][ /\ (Len(rounds') = Len(rounds) + 1)
           => /\ rounds'[Len(rounds')].thought = pending_ai_message
              /\ pending_ai_message' = NoMsg
        /\ (pending_ai_message' # NoMsg) => (pending_ai_message' = msgSeq')
        /\ \A i, j \in 1..Len(rounds') :
              (i # j /\ rounds'[i].thought # NoMsg)
                 => rounds'[i].thought # rounds'[j].thought
        /\ \A i \in 1..Len(rounds') : rounds'[i].thought <= startSeq'[i] ]_vars

C6_Witness ==
    /\ Len(rounds) = 2
    /\ rounds[1].thought # NoMsg
    /\ rounds[2].thought = NoMsg
    /\ pending_ai_message = NoMsg
    /\ msgSeq = 1

\* C7: the first decoded message without tool requests ends the run with status
\* completed and the diagnosis parsed from that very message; a terminal status
\* is set once only, and once set the result never changes again.
C7_FinalMessageEndsRun ==
    [][ /\ (finalMsg' # NoMsg)
           => /\ pc' \in {"returned", "exited"}
              /\ result'.status = "completed"
              /\ ~result'.fallback
              /\ result'.diagnosis.kind = "parsed"
              /\ result'.diagnosis.msg = finalMsg'
        /\ (finalMsg = NoMsg /\ finalMsg' # NoMsg)
           => (result'.rounds = rounds /\ result'.collected = collected)
        /\ terminalSets' <= 1
        /\ (result.status \in Terminal) => (result' = result) ]_vars

C7_Witness ==
    /\ finalMsg = 3
    /\ result.status = "completed"
    /\ result.diagnosis.format = "fields"
    /\ Len(result.rounds) = 2

\* C8: every tool-finished event appends exactly one {tool name, output} entry
\* to the collected data, in event order, whether the output reports success or
\* an error; the list returned is that list.
JsonSafe(out) == IF out = "long" THEN "long_cut" ELSE out
EntryOf(e) == [name |-> IF e.name = NoName THEN "unknown" ELSE e.name,
               output |-> JsonSafe(e.output)]
C8_EveryToolEndRecorded ==
    LET got == IF pc = "loop" THEN collected ELSE result.collected
    IN  (agentInvoked /\ pc # "raised")
           => /\ Len(got) = Len(endEvents)
              /\ \A i \in 1..Len(got) : got[i] = EntryOf(endEvents[i])

C8_Witness ==
    /\ pc = "loop"
    /\ Len(collected) = 2
    /\ collected[1].output = "err"
    /\ collected[2].output = "long_cut"

\* C9 (as claimed): the CLI exits with 0 exactly when the status is completed or
\* general, and with 1 otherwise.
C9_ExitCodeFollowsStatus ==
    (pc = "exited")
       => ((exitCode = 0) <=> (result.status \in {"completed", "general"}))

-----------------------------------------------------------------------------
(* Properties of the cache *)

\* C10: a get(k) that directly follows set(k, v) returns v while the age of the
\* entry is at most the TTL; once the TTL has elapsed it is a miss and the
\* entry is gone from the cache.
C10_GetAfterSet ==
    [][ (lastOp.op = "set" /\ lastOp'.op = "get" /\ lastOp'.key = lastOp.key)
        => IF now - lastOp.at <= TtlSeconds
           THEN lastOp'.ret = lastOp.data
           ELSE lastOp'.ret = Miss /\ ~HasKey(cache', lastOp.key) ]_vars

C10_Witness ==
    /\ lastOp.op = "get"
    /\ lastOp.afterSet
    /\ lastOp.ret = Miss

KeysOf(c) == {e.key : e \in Range(c)}

\* C11: when a set() evicts, the entry evicted is the least recently accessed
\* one, a successful get and a set both counting as an access of their key
\* (the key being set is accessed before the eviction is decided).
C11_EvictsLeastRecentlyAccessed ==
    [][ (evictions' = evictions + 1)
        => /\ lastOp'.op = "set"
           /\ Dropped(recency, {lastOp'.key}) # <<>>
           /\ KeysOf(cache) \ KeysOf(cache')
                = {Head(Dropped(recency, {lastOp'.key}))}
           /\ lastOp'.key \in KeysOf(cache') ]_vars

\* keys 1 and 2 were stored, 1 was read, a third key was set: 2 was evicted
C11_Witness ==
    /\ evictions = 1 /\ hits = 1 /\ misses = 0 /\ opCount = 4
    /\ lastOp.op = "set" /\ lastOp.key = 3
    /\ Len(cache) = MaxSize /\ cache[1].key = 1 /\ cache[2].key = 3

\* C12: the number of stored entries never exceeds the capacity
C12_SizeWithinCapacity == Len(cache) <= MaxSize

C12_Witness == Len(cache) = MaxSize /\ evictions > 0

\* C13: collect_t0 never raises and returns a snapshot that covers the whole
\* roster; a component whose probe raised is reported unknown, and every
\* component's status is the one its own answer determines, whatever happened
\* to the other probes.
C13_CompleteSnapshot ==
    /\ t0pc # "raised"
    /\ (t0pc = "done") =>
         /\ t0data.returned
         /\ DOMAIN t0data.deployments = DEPLOYMENTS_TO_CHECK
         /\ DOMAIN t0data.daemonsets = DAEMONSETS_TO_CHECK
         /\ DOMAIN t0data.endpoints = ENDPOINTS_TO_CHECK
         /\ t0data.total_components = 9
         /\ \A c \in ALL_COMPONENTS :
              LET got == IF c \in DEPLOYMENTS_TO_CHECK THEN t0data.deployments[c]
                         ELSE IF c \in DAEMONSETS_TO_CHECK THEN t0data.daemonsets[c]
                         ELSE t0data.endpoints[c]
              IN  /\ got.name = c
                  /\ (t0input[c].outcome = "raises") => (got.status = "unknown")
                  /\ (t0input[c] = Answer("ok", NoError, 1, 1, 1, 0, FALSE))
                       => (got.status = "healthy")
                  /\ (t0input[c].outcome = "error" /\ t0input[c].error = "not_found")
                       => (got.status = "missing")

\* one probe of each group raised, the other six components are healthy
C13_Witness ==
    /\ t0pc = "done"
    /\ t0input["ovn-central"].outcome = "raises"
    /\ t0input["ovs-ovn"].outcome = "raises"
    /\ t0input["ovn-sb"].outcome = "raises"
    /\ t0data.healthy_components = 6
    /\ t0data.deployments["ovn-central"].status = "unknown"
    /\ t0data.deployments["kube-ovn-controller"].status = "healthy"

\* C14 (as stated): ready = desired and unavailable = 0 give healthy
C14_ReadyAndNoneUnavailableIsHealthy ==
    (probeOut # NoStatus /\ probeIn.answer.outcome = "ok"
       /\ probeIn.type \in {"deployment", "daemonset"}
       /\ probeIn.answer.ready = probeIn.answer.desired
       /\ probeIn.answer.unavailable = 0)
    => probeOut = "healthy"

\* C14 (amended): ready = desired, unavailable = 0 and also the available count
\* (deployment) or the currently scheduled count (daemonset) = desired give healthy
C14_AllCountsAgreeIsHealthy ==
    (probeOut # NoStatus /\ probeIn.answer.outcome = "ok"
       /\ probeIn.type \in {"deployment", "daemonset"}
       /\ probeIn.answer.ready = probeIn.answer.desired
       /\ probeIn.answer.second = probeIn.answer.desired
       /\ probeIn.answer.unavailable = 0)
    => probeOut = "healthy"

C14_Witness ==
    /\ probeOut = "healthy" /\ probeIn.type = "daemonset"
    /\ probeIn.answer.ready = 2 /\ probeIn.answer.desired = 2
    /\ probeIn.answer.second = 2 /\ probeIn.answer.unavailable = 0

RECURSIVE SumSizes(_)
SumSizes(list) == IF list = <<>> THEN 0 ELSE Head(list).size + SumSizes(Tail(list))

\* C15: the estimated sizes of the returned documents sum to at most the budget;
\* at most one of them is a truncated copy, it is the last one, and its size is
\* exactly what the documents before it left of the budget.
C15_WithinBudget ==
    LET r == retrieved.result IN
    (retrieved # NoCall) =>
      /\ SumSizes(r) <= retrieved.max_tokens
      /\ \A i \in 1..Len(r) : r[i].truncated =>
            /\ i = Len(r)
            /\ SumSizes(r) = retrieved.max_tokens
            /\ r[i].size = retrieved.max_tokens - SumSizes(SubSeq(r, 1, i - 1))

\* budget 3000, sizes 1000, 1200, 900, 2000 with priorities 1..4: documents 1-3
\* are returned, the third truncated to 800, and the fourth is left out
C15_Witness ==
    /\ retrieved.max_tokens = 3000 /\ ~retrieved.keywords
    /\ \A i \in 1..4 : documents[i].category = retrieved.category
                          /\ documents[i].priority = i
    /\ documents[1].size = 1000 /\ documents[2].size = 1200
    /\ documents[3].size = 900 /\ documents[4].size = 2000
    /\ Len(retrieved.result) = 3
    /\ retrieved.result[1] = documents[1] /\ retrieved.result[2] = documents[2]
    /\ retrieved.result[3].id = 3 /\ retrieved.result[3].truncated
    /\ retrieved.result[3].size = 800

\* what a retriever that has served no call yet returns
FirstAnswer(cat, max_tokens, keywords) ==
    RetrieveResult([c \in SelCategories |-> NotScanned], documents, cat,
                   max_tokens, keywords)

\* C17: whatever calls came before, retrieve() returns what the first call with
\* these arguments returns (same documents, order, sizes, truncated content and
\* marker), and no call changes a stored document, in the store or in the
\* per-category lists kept from earlier calls.
C17_IdempotentNonMutating ==
    [][ (retrieved' # retrieved \/ scanCache' # scanCache)
        => /\ documents' = documents
           /\ (retrieved'.category \in SelCategories) =>
                 retrieved'.result = FirstAnswer(retrieved'.category,
                                                 retrieved'.max_tokens,
                                                 retrieved'.keywords)
           /\ \A c \in SelCategories : scanCache'[c].scanned =>
                 scanCache'[c].list = SelectSeq(documents, LAMBDA d : d.category = c) ]_vars

\* both categories have been served, and the last call returned a truncated copy
C17_Witness ==
    /\ \A c \in SelCategories : scanCache[c].scanned /\ scanCache[c].list # <<>>
    /\ retrieved.keywords
    /\ retrieved.result # <<>>
    /\ retrieved.result[Len(retrieved.result)].truncated
    /\ \A i \in 1..MaxDocs : ~documents[i].truncated

\* C16: whenever the store holds no document of the requested category, the
\* briefing is the caller-supplied static fallback text, the injection reports
\* that the fallback was used, and nothing is raised.
C16_EmptyCategoryGivesFallback ==
    (/\ briefing # NoBriefing
     /\ SelectSeq(documents, LAMBDA d : d.category = briefing.category) = <<>>)
    => /\ briefing.text = FallbackText(briefing.rule)
       /\ ~briefing.success
       /\ ~briefing.raised


-----------------------------------------------------------------------------
(* Properties of the trace parser *)

ShortKeywordLines ==
    SelectSeq(traceIn, LAMBDA l : flow_keywords(l) /\ LineLength(l) < FlowLineLimit)
AtMost(n, limit) == IF n < limit THEN n ELSE limit

HasLoopbackMarker == \E i \in 1..Len(traceIn) : loopback_pattern(traceIn[i])
HasCapture ==
    \E i \in 1..Len(traceIn) :
        SelectSeq(output_patterns(traceIn[i]), ValidNic) # <<>>
HasDropLine == \E i \in 1..Len(traceIn) : drop_patterns(traceIn[i])
HasBareOutput == \E i \in 1..Len(traceIn) : MentionsOutputAction(traceIn[i])

FirstThreeRules ==
    /\ HasCapture =>
          /\ traceOut.final_verdict = "allowed"
          /\ \E i \in 1..Len(traceIn) :
                 traceOut.output_nic = CapturedNic(traceIn[i], NoValue)
          /\ traceOut.output_nic # NoValue
    /\ (~HasCapture /\ HasDropLine) =>
          /\ traceOut.final_verdict = "dropped"
          /\ traceOut.output_nic = NoValue
    /\ (~HasCapture /\ ~HasDropLine /\ HasBareOutput) =>
          /\ traceOut.final_verdict = "allowed"
          /\ traceOut.output_nic = NoValue
          /\ traceOut.next_steps = << CaptureAndVerify >>

NoRuleApplies == ~HasCapture /\ ~HasDropLine /\ ~HasBareOutput

\* C19 as stated: without a loopback-omit marker the verdict follows the
\* strict priority captured interface, drop, bare output action, and a trace
\* none of them applies to gives unknown with both lists, the next steps
\* and the flow path, empty.
C19_PriorityWithEmptyLists ==
    (traceOut # NoParse /\ ~HasLoopbackMarker) =>
        /\ FirstThreeRules
        /\ NoRuleApplies =>
              /\ traceOut.final_verdict = "unknown"
              /\ traceOut.next_steps = <<>>
              /\ traceOut.flow_path = <<>>

\* C19 amended: the same priority; a trace none of the rules applies to
\* gives unknown with no next step and no analysis, and its flow path holds
\* the first 20 short lines with a flow keyword, so it is empty for the empty
\* text.
C19_PriorityWithEmptyNextSteps ==
    (traceOut # NoParse /\ ~HasLoopbackMarker) =>
        /\ FirstThreeRules
        /\ NoRuleApplies =>
              /\ traceOut.final_verdict = "unknown"
              /\ traceOut.next_steps = <<>>
              /\ traceOut.analysis = <<>>
              /\ traceOut.flow_path =
                     SubSeq(ShortKeywordLines, 1,
                            AtMost(Len(ShortKeywordLines), FlowPathLimit))
              /\ traceIn = <<"">> => traceOut.flow_path = <<>>

C19_Witness ==
    /\ traceIn = <<"drop;", "output port eth0;", "output;">>
    /\ traceOut.final_verdict = "allowed"
    /\ traceOut.output_nic = "eth0"
    /\ traceOut.drop_reason = "drop;"

-----------------------------------------------------------------------------
(* Properties of KubectlWrapper.run *)

\* C20: run() never raises to its caller; a command that outlives its
\* timeout, exits non-zero or cannot be started comes back as a result with
\* success false and an error text.
C20_RunNeverRaises ==
    runOut # NoRun =>
        /\ ~runOut.response.raised
        /\ (runOut.response.executed
              /\ runOut.outcome \in {"timeout", "nonzero", "launch"}) =>
                 /\ ~runOut.response.success
                 /\ runOut.response.error # NoValue

C20_Witness ==
    /\ runOut.outcome = "launch"
    /\ runOut.response.executed
    /\ ~runOut.response.success
    /\ runOut.response.error = "str(e)"
    /\ cache # <<>>

-----------------------------------------------------------------------------
(* Properties of the cache statistics *)

\* C29: no get, set, remove or cleanup_expired lowers the hit, miss or
\* eviction counter; only clear() does, and it sets all three to zero.
C29_CountersMonotonicUntilClear ==
    [][ /\ (hits' < hits \/ misses' < misses \/ evictions' < evictions)
            => lastOp'.op = "clear"
        /\ (opCount' # opCount /\ lastOp'.op = "clear")
            => (hits' = 0 /\ misses' = 0 /\ evictions' = 0) ]_vars

\* a clear() as the last of MaxOps operations
C29_Witness ==
    /\ lastOp.op = "clear" /\ opCount = MaxOps
    /\ hits = 0 /\ misses = 0 /\ evictions = 0 /\ cache = <<>>

-----------------------------------------------------------------------------
(* Properties of the cache as KubectlWrapper.run uses it *)

\* C30: run() stores a result only when the command succeeded. An entry
\* that appears under the key of a command is the result of a successful
\* run of that command, and the call that follows a failed call with the
\* same arguments executes the command again.
C30_FailuresNeverCached ==
    [][ /\ \A e \in Range(cache') \ Range(cache) :
               e.key \in RunKeys =>
                   /\ runOut'.key = e.key
                   /\ runOut'.response.success
                   /\ runOut'.response.executed
                   /\ runOut'.response.cached = "false"
                   /\ runOut'.response.data = e.data
        /\ ( /\ opCount' = opCount + 1
             /\ runOut.response.executed /\ ~runOut.response.success
             /\ runOut'.key = runOut.key
             /\ runOut'.use_cache = runOut.use_cache )
            => runOut'.response.executed ]_vars

\* two failed calls went through the cache lookup and nothing was stored
\* under the key of the command
C30_Witness ==
    /\ runOut.use_cache /\ enable_cache /\ cache # <<>>
    /\ runOut.response.executed /\ ~runOut.response.success
    /\ runOut.outcome = "nonzero"
    /\ misses = 2 /\ opCount = MaxRuns
    /\ ~HasKey(cache, runOut.key)

-----------------------------------------------------------------------------
(* Properties of the line scan of the trace parser *)

CaptureLines ==
    {i \in 1..Len(traceIn) :
        SelectSeq(output_patterns(traceIn[i]), ValidNic) # <<>>}
DropLines == {i \in 1..Len(traceIn) : drop_patterns(traceIn[i])}
Highest(S) == CHOOSE i \in S : \A j \in S : j <= i
Lowest(S) == CHOOSE i \in S : \A j \in S : i <= j

\* C26: the interface returned is the one captured from the last line that
\* names a valid interface, and the drop reason is the first line that
\* matches a drop pattern.
C26_LastInterfaceFirstDrop ==
    traceOut # NoParse =>
        /\ traceOut.output_nic =
              IF CaptureLines = {} THEN NoValue
              ELSE Head(SelectSeq(output_patterns(traceIn[Highest(CaptureLines)]),
                                  ValidNic))
        /\ traceOut.drop_reason =
              IF DropLines = {} THEN NoValue ELSE traceIn[Lowest(DropLines)]

C26_Witness ==
    /\ traceIn = <<"output port eth0;", "acl drop;", "output port ovn0;">>
    /\ traceOut.output_nic = "ovn0"
    /\ traceOut.drop_reason = "acl drop;"

WithoutNat(lines) == SelectSeq(lines, LAMBDA l : ~MentionsNatCall(l))

\* C27: for a trace resolved as needs_verification the analysis tells the
\* NAT case from the bare loopback case: the trace and the same trace without
\* its NAT lines get different analysis texts.
C27_AnalysisTellsNatFromBare ==
    ( /\ traceOut # NoParse
      /\ traceOut.final_verdict = "needs_verification"
      /\ \E i \in 1..Len(traceIn) : MentionsNatCall(traceIn[i]) ) =>
        traceOut.analysis # parse_ovn_trace_output(WithoutNat(traceIn)).analysis

KeywordLines == SelectSeq(traceIn, flow_keywords)

\* C28 as stated: the flow path holds at most 20 entries, each shorter than
\* 200 characters, and every line with a flow keyword has its entry there,
\* cut to the length limit, until the 20 are reached.
C28_EveryKeywordLineRepresented ==
    traceOut # NoParse =>
        /\ Len(traceOut.flow_path) <= FlowPathLimit
        /\ \A i \in 1..Len(traceOut.flow_path) :
               LineLength(traceOut.flow_path[i]) < FlowLineLimit
        /\ Len(traceOut.flow_path) = AtMost(Len(KeywordLines), FlowPathLimit)

\* C28 amended: the flow path holds at most 20 entries, each shorter than
\* 200 characters; it is the first 20 of the lines that hold a flow keyword
\* and are shorter than 200 characters, a longer line having no entry.
C28_ShortKeywordLinesKept ==
    traceOut # NoParse =>
        /\ Len(traceOut.flow_path) <= FlowPathLimit
        /\ \A i \in 1..Len(traceOut.flow_path) :
               LineLength(traceOut.flow_path[i]) < FlowLineLimit
        /\ traceOut.flow_path =
              SubSeq(ShortKeywordLines, 1,
                     AtMost(Len(ShortKeywordLines), FlowPathLimit))

\* 21 keyword lines and a long one: 20 entries
C28_Witness ==
    /\ Len(traceIn) = FlowPathLimit + 2
    /\ traceIn[1] = "ct(commit);" /\ traceIn[Len(traceIn)] = LongLine
    /\ Len(traceOut.flow_path) = FlowPathLimit
    /\ Len(KeywordLines) = FlowPathLimit + 2

-----------------------------------------------------------------------------
(* Properties of the error classification of a probe *)

\* C25: when the status fetch of a probe fails, an error text with "not
\* found" gives missing, one with "forbidden" (and without "not found", which
\* is tested first) gives permission_denied with the text, and every other
\* text, a timeout included, gives unknown with the raw error text.
C25_ErrorTextClassified ==
    (probeOut # NoStatus /\ probeIn.answer.outcome = "error") =>
        LET e == probeIn.answer.error IN
        /\ e \in {"not_found", "not_found_forbidden"} => probeOut = "missing"
        /\ e = "forbidden" =>
              probeOut = "permission_denied" /\ probeMsg = e
        /\ e \in {"timed_out", "other"} =>
              probeOut = "unknown" /\ probeMsg = e

C25_Witness ==
    /\ probeIn.type = "endpoint"
    /\ probeIn.answer.outcome = "error" /\ probeIn.answer.error = "timed_out"
    /\ probeOut = "unknown" /\ probeMsg = "timed_out"

-----------------------------------------------------------------------------
(* Properties of the bounded probe pool *)

\* C23: at no moment are more than max_concurrent probes of one
\* _execute_with_limit call executing, however many coroutines it was given.
C23_AtMostThreeProbesAtOnce ==
    /\ Cardinality(Holding(tasks)) <= max_concurrent
    /\ semaphore + Cardinality(Holding(tasks)) = max_concurrent

\* four probes: three executing, the fourth waiting for the semaphore
C23_Witness ==
    /\ Len(tasks) > max_concurrent
    /\ Cardinality(Holding(tasks)) = max_concurrent
    /\ \E t \in DOMAIN tasks : tasks[t] = "created"

\* C24: the fetch of describe output and logs runs outside the concurrency
\* bound: a probe in that fetch holds none of the max_concurrent slots, so
\* the slots are the free ones and the ones of probes fetching a status.
C24_DetailFetchHoldsNoSlot ==
    semaphore + Cardinality({t \in DOMAIN tasks : tasks[t] = "status"})
        = max_concurrent

-----------------------------------------------------------------------------
(* Properties of the cache under concurrent callers *)

\* C22: every reading and mutating operation of the cache runs under the
\* one lock, so no caller is given the entry count of a half-applied
\* update: a count a caller reads is never above the capacity.
C22_NoPartialUpdateObserved == lkSeen.size <= MaxSize

-----------------------------------------------------------------------------
(* Properties of match_rule *)

NoKeyConfigured == ApiKeyOf(environ) = None

\* C21: with no LLM API key configured, match_rule falls back to the
\* default scenario instead of failing: every call returns the rule name
\* 'pod_to_pod'.
C21_FallsBackToPodToPod ==
    (NoKeyConfigured /\ matchOut # NoMatch)
        => /\ matchOut.raised = NoException
           /\ matchOut.category = "pod_to_pod"

=============================================================================
